---- MODULE Spec2Model ----
(***************************************************************************)
(* Authentication, session and rate-limiting core of the WhatsApp forensic *)
(* analyzer backend (backend/app/services/auth_service.py,                 *)
(* backend/app/core/rate_limiter.py, backend/app/core/security.py).        *)
(*                                                                         *)
(* Time is an integer number of clock ticks; TicksPerSec ticks make one    *)
(* second, so that datetime values (tick resolution) and JWT iat/exp       *)
(* claims (whole seconds) are kept apart.                                  *)
(***************************************************************************)
EXTENDS Integers, Sequences, FiniteSets, TLC

\* ---------------------------------------------------------------- bounds
TicksPerSec == 2
MaxPhase == 3
MaxSessions == 2
MaxLoginSessions == 1
MaxJumps == 3
WaitMinutes == 10
SessionPhase == 2
MaxRequests == 2
AdminPhase == 2
LimitPhase == 5
MaxNewUsers == 2

\* ------------------------------------------------------ program constants
LOGIN_RATE_LIMIT_PER_15MIN == 5
WINDOW_MINUTES == 15
LOCK_THRESHOLD == 5
LOCK_MINUTES == 30
JWT_EXPIRATION_HOURS == 8
REFRESH_TOKEN_EXPIRY_DAYS == 30
APP_NAME == "WhatsApp Forensic Analyzer"

NULL == -1

Seconds(s) == s * TicksPerSec
Minutes(m) == Seconds(60 * m)
Hours(h) == Minutes(60 * h)
Days(d) == Hours(24 * d)

\* ------------------------------------------------------------- the users
UserIds == {"u1", "u2"}
\* ids that uuid4 gives to rows created later
NewIds == {"u3", "u4", "u5", "u6"}
UsernameOf == [u \in UserIds |-> IF u = "u1" THEN "alice" ELSE "bob"]
RoleOf == [u \in UserIds |-> IF u = "u1" THEN "admin" ELSE "examiner"]
EmailOf == [u \in UserIds |-> IF u = "u1" THEN "alice@lab.org" ELSE "bob@lab.org"]
Names == {"alice", "bob", "ghost", "ALICE"}
Passwords == {"right", "wrong"}

lower_kept(name) == name

\* str.lower() on the submitted user names
Lower(name) ==
    CASE name = "ALICE" -> "alice"
      [] name = "Bob" -> "bob"
      [] name = "Carol" -> "carol"
      [] OTHER -> name

\* bcrypt: the hash is salted and one-way, verify recomputes it from the plain text
get_password_hash(password) == <<"bcrypt", password>>

verify_password(plain_password, hashed_password) ==
    hashed_password = <<"bcrypt", plain_password>>

VARIABLES
    now,          \* the clock, in ticks
    users,        \* user id -> User row
    sessions,     \* sequence of Session rows, in insertion order
    buckets,      \* rate-limit key -> sorted set of the limiter store
    limiter,      \* "up": store reachable, "down": store calls raise, "none": no client
    issued,       \* tokens handed to clients so far
    spent,        \* refresh tokens a successful refresh has consumed
    loggedOut,    \* access tokens whose logout matched a session
    wrongRun,     \* user id -> wrong-password verifications since the last success
    passes,       \* key -> attempts that got past the rate-limit check since the
                  \* last long wait (NULL once the store has been unreachable)
    jumps,        \* number of long clock jumps taken
    req,          \* worker -> the refresh request it is handling, step by step
    last,         \* the last handler call and its outcome
    audit_log,    \* the audit_log table: sequence of AuditLog rows
    sink,         \* "ok": the audit table takes writes, "fails": add or commit
                  \* raises, "broken": add or commit and the rollback raise
    http          \* the last request the middleware stack served

vars == <<now, users, sessions, buckets, limiter, issued, spent, loggedOut,
          wrongRun, passes, jumps, req, last, audit_log, sink, http>>

auditVars == <<audit_log, sink, http>>

Workers == {"w1", "w2"}

\* ------------------------------------------------------------ JWT tokens
NowSec == now \div TicksPerSec

NoToken == [sub |-> "", username |-> "", role |-> "", typ |-> "", iat |-> NULL,
            exp |-> NULL, iss |-> "", sig |-> FALSE]

\* a token that was not signed with the server's key
ForgedToken == [sub |-> "u1", username |-> "", role |-> "", typ |-> "refresh",
                iat |-> 0, exp |-> Days(365) \div TicksPerSec, iss |-> APP_NAME,
                sig |-> FALSE]

\* jwt.encode is deterministic in the claim set; exp and iat are whole seconds
create_access_token(data, expires_delta) ==
    [sub |-> data.sub, username |-> data.username, role |-> data.role,
     typ |-> data.typ,
     iat |-> NowSec,
     exp |-> (now + expires_delta) \div TicksPerSec,
     iss |-> APP_NAME, sig |-> TRUE]

create_refresh_token(user_id) ==
    create_access_token([sub |-> user_id, username |-> "", role |-> "",
                         typ |-> "refresh"], Days(REFRESH_TOKEN_EXPIRY_DAYS))

AccessTokenFor(uid) ==
    create_access_token([sub |-> uid, username |-> users[uid].username,
                         role |-> users[uid].role, typ |-> "access"],
                        Hours(JWT_EXPIRATION_HOURS))

\* jwt.decode: signature and exp are checked; NULL stands for None
verify_token(token) ==
    IF token.sig /\ token.exp >= NowSec THEN token ELSE NoToken

\* ------------------------------------------------------- the limiter store
EmptyBucket == [entries |-> {}, expire_at |-> NULL]

\* a key whose time-to-live has run out is gone
Live(b) == IF b.expire_at # NULL /\ b.expire_at <= now THEN EmptyBucket ELSE b

ZRemRangeByScore(b, lo, hi) ==
    LET kept == {s \in Live(b).entries : ~(lo <= s /\ s <= hi)}
    IN  IF kept = {} THEN EmptyBucket ELSE [Live(b) EXCEPT !.entries = kept]

ZCard(b) == Cardinality(Live(b).entries)

\* member str(timestamp), score timestamp: one member per distinct timestamp
ZAdd(b, score) == [Live(b) EXCEPT !.entries = @ \cup {score}]

Expire(b, ttl) == IF Live(b).entries = {} THEN Live(b)
                  ELSE [Live(b) EXCEPT !.expire_at = now + ttl]

\* what check_rate_limit answers without a client or when a store call raises
fail_closed(store, max_attempts) ==
    [allowed |-> FALSE, remaining |-> 0, store |-> store]

fail_open(store, max_attempts) ==
    [allowed |-> TRUE, remaining |-> max_attempts, store |-> store]

\* remove old entries (outside the time window)
remove_old_kept(bucket, window_minutes) == Live(bucket)

remove_old(bucket, window_minutes) ==
    ZRemRangeByScore(bucket, 0, now - Minutes(window_minutes))

\* a check that counts the attempt it is checking
check_rate_limit_recording(store, key, max_attempts, window_minutes) ==
    IF limiter # "up" THEN fail_open(store, max_attempts)
    ELSE LET pruned == remove_old(store[key], window_minutes)
             current_attempts == ZCard(pruned)
             counted == Expire(ZAdd(pruned, now), Minutes(window_minutes))
         IN  IF current_attempts >= max_attempts
             THEN [allowed |-> FALSE, remaining |-> 0,
                   store |-> [store EXCEPT ![key] = counted]]
             ELSE [allowed |-> TRUE, remaining |-> max_attempts - current_attempts,
                   store |-> [store EXCEPT ![key] = pruned]]

check_rate_limit(store, key, max_attempts, window_minutes) ==
    IF limiter = "none" THEN fail_open(store, max_attempts)
    ELSE IF limiter = "down" THEN fail_open(store, max_attempts)
    ELSE LET pruned == remove_old(store[key], window_minutes)
             current_attempts == ZCard(pruned)
             store2 == [store EXCEPT ![key] = pruned]
         IN  IF current_attempts >= max_attempts
             THEN [allowed |-> FALSE, remaining |-> 0, store |-> store2]
             ELSE [allowed |-> TRUE, remaining |-> max_attempts - current_attempts,
                   store |-> store2]

record_attempt(store, key, window_minutes) ==
    IF limiter # "up" THEN store
    ELSE [store EXCEPT ![key] = Expire(ZAdd(store[key], now), Minutes(window_minutes))]

reset_kept(store, key) == store

reset(store, key) ==
    IF limiter # "up" THEN store
    ELSE [store EXCEPT ![key] = EmptyBucket]

\* zrange(key, 0, 0, withscores=True): the entry with the lowest score
Oldest(b) == CHOOSE s \in Live(b).entries : \A t \in Live(b).entries : s <= t

\* whole seconds until the oldest entry of the key is window_minutes old
get_remaining_time(store, key, window_minutes) ==
    IF limiter # "up" THEN 0
    ELSE IF Live(store[key]).entries = {} THEN 0
    ELSE LET expires_at == Oldest(store[key]) + Minutes(window_minutes)
         IN  IF expires_at > now THEN (expires_at - now) \div TicksPerSec ELSE 0

\* ----------------------------------------------------------------- rows
\* Session.last_activity is written by verify_session and by refresh and read
\* by nothing: the rows carry the fields the handlers read.
UserByUsername(name) == {u \in DOMAIN users : users[u].username = name}

NewSession(uid, access_token, refresh_token) ==
    [user_id |-> uid, token |-> access_token, refresh_token |-> refresh_token,
     expires_at |-> now + Hours(JWT_EXPIRATION_HOURS),
     refresh_expires_at |-> now + Days(REFRESH_TOKEN_EXPIRY_DAYS),
     is_revoked |-> FALSE]

\* Session.is_valid: not revoked and not past its own expiry
is_valid(s) == ~s.is_revoked /\ now < s.expires_at

Call(op, key, tok, result, status, user) ==
    [op |-> op, key |-> key, tok |-> tok, result |-> result, status |-> status,
     user |-> user, at |-> now, replay |-> FALSE, locked |-> FALSE,
     pwok |-> FALSE, pre |-> NULL, out |-> NoToken, detail |-> <<>>,
     headers |-> {}]

\* fastapi.HTTPException: what the boundary layer answers the caller with
HTTPException(status_code, detail, headers) ==
    [status_code |-> status_code, detail |-> detail, headers |-> headers]

\* a call that ended by raising exc
Raised(call, exc) ==
    [call EXCEPT !.status = exc.status_code, !.detail = exc.detail,
                 !.headers = exc.headers]

Idle == [pc |-> "idle", rt |-> NoToken, sid |-> 0, new_access |-> NoToken,
         new_refresh |-> NoToken, expires_at |-> NULL, refresh_expires_at |-> NULL,
         result |-> "", overlap |-> FALSE, data |-> <<>>]

\* no request served yet
NoExchange ==
    [n |-> 0, request |-> <<>>, downstream |-> <<>>, client |-> <<>>,
     audited |-> FALSE, sink |-> ""]

Init ==
    /\ now = 0
    /\ users = [u \in UserIds |->
                  [username |-> UsernameOf[u],
                   email |-> EmailOf[u], full_name |-> UsernameOf[u],
                   password_hash |-> get_password_hash("right"),
                   role |-> RoleOf[u], is_active |-> TRUE,
                   failed_login_attempts |-> 0, locked_until |-> NULL,
                   last_login |-> NULL, password_changed_at |-> NULL]]
    /\ sessions = <<>>
    /\ buckets = [k \in Names |-> EmptyBucket]
    /\ limiter \in {"up", "none"}
    /\ issued = {}
    /\ spent = {}
    /\ loggedOut = {}
    /\ wrongRun = [u \in UserIds |-> 0]
    /\ passes = [k \in Names |-> IF limiter = "up" THEN 0 ELSE NULL]
    /\ jumps = 0
    /\ req = [w \in Workers |-> Idle]
    /\ last = [Call("init", "", NoToken, "", 0, "") EXCEPT !.at = NULL]
    /\ audit_log = <<>>
    /\ sink = "ok"
    /\ http = NoExchange

\* ------------------------------------------------------------- the clock
\* time moves on by one tick once a handler has run at the current instant
Tick(phase) ==
    /\ last.at = now
    /\ now % Minutes(1) < phase
    /\ now' = now + 1
    /\ UNCHANGED <<users, sessions, buckets, limiter, issued, spent, loggedOut,
                   wrongRun, passes, jumps, req, last>>
    /\ UNCHANGED auditVars

\* a long wait
Jump(d) ==
    /\ jumps < MaxJumps
    /\ now' = now + d
    /\ jumps' = jumps + 1
    /\ passes' = [k \in Names |-> IF passes[k] # NULL THEN 0 ELSE NULL]
    /\ UNCHANGED <<users, sessions, buckets, limiter, issued, spent, loggedOut,
                   wrongRun, req, last>>
    /\ UNCHANGED auditVars

\* ------------------------------------------------- the store's availability
StoreFails ==
    /\ limiter = "up"
    /\ limiter' = "down"
    /\ passes' = [k \in Names |-> NULL]
    /\ UNCHANGED <<now, users, sessions, buckets, issued, spent, loggedOut,
                   wrongRun, jumps, req, last>>
    /\ UNCHANGED auditVars

StoreRecovers ==
    /\ limiter = "down"
    /\ limiter' = "up"
    /\ UNCHANGED <<now, users, sessions, buckets, issued, spent, loggedOut,
                   wrongRun, passes, jumps, req, last>>
    /\ UNCHANGED auditVars

\* --------------------------------------------- AuthService.authenticate_user
is_locked_flipped(user) == user.locked_until # NULL /\ user.locked_until < now

is_locked_local_time(user) ==
    user.locked_until # NULL /\ user.locked_until > now + Hours(1)

is_locked_from_start(user) ==
    user.locked_until # NULL /\ user.locked_until > now + Minutes(LOCK_MINUTES)

is_locked_once_set(user) == user.locked_until # NULL

\* user.locked_until and user.locked_until > datetime.now(timezone.utc)
is_locked(user) == user.locked_until # NULL /\ user.locked_until > now

lock_after_failure_late(n, locked_until) ==
    IF n > LOCK_THRESHOLD THEN now + Minutes(LOCK_MINUTES) ELSE locked_until

lock_after_failure_early(n, locked_until) ==
    IF n >= LOCK_THRESHOLD - 1 THEN now + Minutes(LOCK_MINUTES) ELSE locked_until

lock_after_failure_at_threshold(n, locked_until) ==
    IF n = LOCK_THRESHOLD THEN now + Minutes(LOCK_MINUTES) ELSE locked_until

\* lock the account after 5 failed attempts
lock_after_failure(n, locked_until) ==
    IF n >= LOCK_THRESHOLD THEN now + Minutes(LOCK_MINUTES) ELSE locked_until

rate_limit_error ==
    HTTPException(429, <<"Too many login attempts. Please try again later.">>, {})

unknown_user_error_404 == HTTPException(404, <<"User not found">>, {})

unknown_user_error ==
    HTTPException(401, <<"Incorrect username or password">>,
                  {<<"WWW-Authenticate", "Bearer">>})

account_locked_error(user) ==
    HTTPException(403, <<"Account locked until", user.locked_until>>, {})

wrong_password_error ==
    HTTPException(401, <<"Incorrect username or password">>,
                  {<<"WWW-Authenticate", "Bearer">>})

account_disabled_error == HTTPException(403, <<"User account is disabled">>, {})

account_disabled_skipped(user) == FALSE

\* if not user.is_active
account_disabled(user) == ~user.is_active

authenticate_user(username, password) ==
    LET chk == check_rate_limit(buckets, username, LOGIN_RATE_LIMIT_PER_15MIN,
                                WINDOW_MINUTES)
        found == UserByUsername(Lower(username))
    IN
    IF ~chk.allowed THEN
        /\ buckets' = chk.store
        /\ last' = Raised(Call("authenticate", username, NoToken, "RateLimited", 429, ""),
                          rate_limit_error)
        /\ UNCHANGED <<users, sessions, issued, wrongRun>>
    ELSE IF found = {} THEN
        /\ buckets' = record_attempt(chk.store, username, WINDOW_MINUTES)
        /\ last' = Raised(Call("authenticate", username, NoToken,
                               "InvalidCredentials", 401, ""), unknown_user_error)
        /\ UNCHANGED <<users, sessions, issued, wrongRun>>
    ELSE
        LET uid == CHOOSE u \in found : TRUE
            user == users[uid]
            isLocked == is_locked(user)
            pwok == verify_password(password, user.password_hash)
        IN
        IF isLocked THEN
            /\ buckets' = chk.store
            /\ last' = [Raised(Call("authenticate", username, NoToken,
                                    "AccountLocked", 403, uid),
                               account_locked_error(user))
                           EXCEPT !.locked = TRUE, !.pwok = pwok]
            /\ UNCHANGED <<users, sessions, issued, wrongRun>>
        ELSE IF ~pwok THEN
            LET n == user.failed_login_attempts + 1
            IN  /\ users' = [users EXCEPT
                        ![uid].failed_login_attempts = n,
                        ![uid].locked_until = lock_after_failure(n, @)]
                /\ buckets' = record_attempt(chk.store, username, WINDOW_MINUTES)
                /\ wrongRun' = [wrongRun EXCEPT ![uid] = @ + 1]
                /\ last' = [Raised(Call("authenticate", username, NoToken,
                                        "InvalidCredentials", 401, uid),
                                   wrong_password_error)
                               EXCEPT !.pre = user.failed_login_attempts]
                /\ UNCHANGED <<sessions, issued>>
        ELSE IF account_disabled(user) THEN
            /\ buckets' = chk.store
            /\ last' = [Raised(Call("authenticate", username, NoToken,
                                    "Forbidden", 403, uid), account_disabled_error)
                           EXCEPT !.pwok = TRUE]
            /\ UNCHANGED <<users, sessions, issued, wrongRun>>
        ELSE
            LET access_token == AccessTokenFor(uid)
                refresh_token == create_refresh_token(uid)
            IN  /\ Len(sessions) < MaxSessions
                /\ users' = [users EXCEPT ![uid].failed_login_attempts = 0,
                                          ![uid].locked_until = NULL,
                                          ![uid].last_login = now]
                /\ buckets' = reset(chk.store, username)
                /\ sessions' = Append(sessions,
                                      NewSession(uid, access_token, refresh_token))
                /\ issued' = issued \cup {access_token, refresh_token}
                /\ wrongRun' = [wrongRun EXCEPT ![uid] = 0]
                /\ last' = [Call("authenticate", username, access_token, "ok", 200, uid)
                               EXCEPT !.pwok = TRUE, !.out = refresh_token,
                                      !.pre = user.failed_login_attempts]

AuthenticateUser(username, password) ==
    /\ authenticate_user(username, password)
    /\ passes' = IF last'.result = "RateLimited" \/ passes[username] = NULL
                 THEN passes
                 ELSE [passes EXCEPT ![username] =
                          IF @ > LOGIN_RATE_LIMIT_PER_15MIN THEN @ ELSE @ + 1]
    /\ UNCHANGED <<now, limiter, spent, loggedOut, jumps, req>>
    /\ UNCHANGED auditVars

\* authenticate_user, one call per worker: a call that reaches the
\* wrong-password branch has loaded the user row with its query and later
\* commits the row object it changed; the other branches have nothing between
\* their read and their answer. No row is locked in between.
failed_attempts_in_place(loaded, stored) == stored.failed_login_attempts + 1

\* user.failed_login_attempts += 1, on the row object the query loaded
failed_attempts(loaded, stored) == loaded.failed_login_attempts + 1

AuthenticateBegin(w, username, password) ==
    /\ req[w].pc \in {"idle", "done"}
    /\ LET chk == check_rate_limit(buckets, username, LOGIN_RATE_LIMIT_PER_15MIN,
                                   WINDOW_MINUTES)
           found == UserByUsername(Lower(username))
           uid == CHOOSE u \in found : TRUE
       IN  IF /\ chk.allowed
              /\ found # {}
              /\ ~is_locked(users[uid])
              /\ ~verify_password(password, users[uid].password_hash)
           THEN /\ buckets' = chk.store
                /\ req' = [req EXCEPT ![w] =
                              [Idle EXCEPT !.pc = "loaded",
                                           !.data = <<[user_id |-> uid,
                                                       username |-> username,
                                                       user |-> users[uid]]>>]]
                /\ passes' = IF passes[username] = NULL THEN passes
                             ELSE [passes EXCEPT ![username] =
                                     IF @ > LOGIN_RATE_LIMIT_PER_15MIN THEN @ ELSE @ + 1]
                /\ last' = Call("authenticate-begin", username, NoToken, "", 0, uid)
                /\ UNCHANGED <<now, users, sessions, limiter, issued, spent,
                               loggedOut, wrongRun, jumps>>
                /\ UNCHANGED auditVars
           ELSE AuthenticateUser(username, password)

WrongPasswordCommit(w) ==
    /\ req[w].pc = "loaded"
    /\ LET loaded == req[w].data[1]
           uid == loaded.user_id
           n == failed_attempts(loaded.user, users[uid])
       IN  /\ users' = [users EXCEPT
                          ![uid].failed_login_attempts = n,
                          ![uid].locked_until = lock_after_failure(n, @)]
           /\ buckets' = record_attempt(buckets, loaded.username, WINDOW_MINUTES)
           /\ wrongRun' = [wrongRun EXCEPT ![uid] = @ + 1]
           /\ req' = [req EXCEPT ![w].pc = "done", ![w].result = "InvalidCredentials"]
           /\ last' = [Raised(Call("authenticate", loaded.username, NoToken,
                                   "InvalidCredentials", 401, uid),
                              wrong_password_error)
                          EXCEPT !.pre = loaded.user.failed_login_attempts]
    /\ UNCHANGED <<now, sessions, limiter, issued, spent, loggedOut, passes, jumps>>
    /\ UNCHANGED auditVars

\* ------------------------------------------ AuthService.refresh_access_token
\* .first() has no ORDER BY: any matching row may be the one returned
user_missing(user_id) == user_id \notin DOMAIN users

\* if not user or not user.is_active
user_missing_or_inactive(user_id) ==
    user_id \notin DOMAIN users \/ ~users[user_id].is_active

RefreshMatches(refresh_token) ==
    {i \in 1..Len(sessions) :
        sessions[i].refresh_token = refresh_token /\ ~sessions[i].is_revoked}

RefreshFails(refresh_token, result, status) ==
    /\ last' = [Call("refresh", "", refresh_token, result, status, "")
                   EXCEPT !.replay = refresh_token \in spent]
    /\ UNCHANGED <<sessions, issued, spent>>

update_session_as_new_row(rows, i, new_access_token, new_refresh_token) ==
    Append(rows, NewSession(rows[i].user_id, new_access_token, new_refresh_token))

\* the matched row takes the new tokens and expiries, in place
update_session(rows, i, new_access_token, new_refresh_token) ==
    [rows EXCEPT
        ![i].token = new_access_token,
        ![i].refresh_token = new_refresh_token,
        ![i].expires_at = now + Hours(JWT_EXPIRATION_HOURS),
        ![i].refresh_expires_at = now + Days(REFRESH_TOKEN_EXPIRY_DAYS)]

refresh_access_token(refresh_token) ==
    LET payload == verify_token(refresh_token)
        user_id == payload.sub
    IN
    IF payload = NoToken \/ payload.typ # "refresh" THEN
        RefreshFails(refresh_token, "InvalidToken", 401)
    ELSE IF RefreshMatches(refresh_token) = {} THEN
        RefreshFails(refresh_token, "InvalidToken", 401)
    ELSE \E i \in RefreshMatches(refresh_token) :
        IF sessions[i].refresh_expires_at < now THEN
            RefreshFails(refresh_token, "TokenExpired", 401)
        ELSE IF user_missing_or_inactive(user_id) THEN
            RefreshFails(refresh_token, "Forbidden", 403)
        ELSE
            LET new_access_token == AccessTokenFor(user_id)
                new_refresh_token == create_refresh_token(user_id)
            IN  /\ sessions' = update_session(sessions, i, new_access_token,
                                               new_refresh_token)
                /\ issued' = issued \cup {new_access_token, new_refresh_token}
                /\ spent' = spent \cup {refresh_token}
                /\ last' = [Call("refresh", "", refresh_token, "ok", 200, user_id)
                               EXCEPT !.replay = refresh_token \in spent,
                                      !.out = new_refresh_token]

RefreshAccessToken(refresh_token) ==
    /\ refresh_access_token(refresh_token)
    /\ UNCHANGED <<now, users, buckets, limiter, loggedOut, wrongRun, passes, jumps,
                   req>>
    /\ UNCHANGED auditVars

\* refresh_access_token, one request per worker, step by step: the reads of
\* the session and user rows, the new tokens and field values, the commit.
\* Each request has its own database session; no row is locked between the
\* query and the commit, and the commit updates the row by its id.
BeginFails(w, refresh_token, result, status) ==
    /\ req' = [req EXCEPT ![w] = [Idle EXCEPT !.pc = "done", !.rt = refresh_token,
                                               !.result = result]]
    /\ last' = Call("refresh", "", refresh_token, result, status, "")

RefreshBegin(w, refresh_token) ==
    /\ req[w].pc \in {"idle", "done"}
    /\ LET payload == verify_token(refresh_token)
           user_id == payload.sub
           racing == {v \in Workers \ {w} :
                        req[v].pc \in {"found", "prepared"} /\ req[v].rt = refresh_token}
       IN
       IF payload = NoToken \/ payload.typ # "refresh" THEN
           BeginFails(w, refresh_token, "InvalidToken", 401)
       ELSE IF RefreshMatches(refresh_token) = {} THEN
           BeginFails(w, refresh_token, "InvalidToken", 401)
       ELSE \E i \in RefreshMatches(refresh_token) :
           IF sessions[i].refresh_expires_at < now THEN
               BeginFails(w, refresh_token, "TokenExpired", 401)
           ELSE IF user_missing_or_inactive(user_id) THEN
               BeginFails(w, refresh_token, "Forbidden", 403)
           ELSE
               /\ req' = [v \in Workers |->
                            IF v = w
                            THEN [Idle EXCEPT !.pc = "found", !.rt = refresh_token,
                                              !.sid = i, !.overlap = racing # {}]
                            ELSE IF v \in racing THEN [req[v] EXCEPT !.overlap = TRUE]
                            ELSE req[v]]
               /\ last' = Call("refresh-begin", "", refresh_token, "", 0, user_id)
    /\ UNCHANGED <<now, users, sessions, buckets, limiter, issued, spent, loggedOut,
                   wrongRun, passes, jumps>>
    /\ UNCHANGED auditVars

RefreshPrepare(w) ==
    /\ req[w].pc = "found"
    /\ LET user_id == req[w].rt.sub
       IN  /\ req' = [req EXCEPT
                        ![w].pc = "prepared",
                        ![w].new_access = AccessTokenFor(user_id),
                        ![w].new_refresh = create_refresh_token(user_id),
                        ![w].expires_at = now + Hours(JWT_EXPIRATION_HOURS),
                        ![w].refresh_expires_at = now + Days(REFRESH_TOKEN_EXPIRY_DAYS)]
           /\ last' = Call("refresh-prepare", "", req[w].rt, "", 0, user_id)
    /\ UNCHANGED <<now, users, sessions, buckets, limiter, issued, spent, loggedOut,
                   wrongRun, passes, jumps>>
    /\ UNCHANGED auditVars

RefreshCommit(w) ==
    /\ req[w].pc = "prepared"
    /\ sessions' = [sessions EXCEPT
                      ![req[w].sid].token = req[w].new_access,
                      ![req[w].sid].refresh_token = req[w].new_refresh,
                      ![req[w].sid].expires_at = req[w].expires_at,
                      ![req[w].sid].refresh_expires_at = req[w].refresh_expires_at]
    /\ issued' = issued \cup {req[w].new_access, req[w].new_refresh}
    /\ spent' = spent \cup {req[w].rt}
    /\ req' = [req EXCEPT ![w].pc = "done", ![w].result = "ok"]
    /\ last' = [Call("refresh", "", req[w].rt, "ok", 200, req[w].rt.sub)
                   EXCEPT !.replay = req[w].rt \in spent, !.out = req[w].new_refresh]
    /\ UNCHANGED <<now, users, buckets, limiter, loggedOut, wrongRun, passes, jumps>>
    /\ UNCHANGED auditVars

\* ------------------------------------------------ AuthService.verify_session
VerifyMatchesAnyToken(token) ==
    {i \in 1..Len(sessions) : ~sessions[i].is_revoked}

VerifyMatches(token) ==
    {i \in 1..Len(sessions) : sessions[i].token = token /\ ~sessions[i].is_revoked}

VerifyNone(token) ==
    /\ last' = Call("verify", "", token, "none", 0, "")
    /\ UNCHANGED sessions

user_not_active_flipped(user_id) ==
    user_id \notin DOMAIN users \/ users[user_id].is_active

\* if not user or not user.is_active: return None
user_not_active(user_id) ==
    user_id \notin DOMAIN users \/ ~users[user_id].is_active

verify_session(token) ==
    LET payload == verify_token(token)
        user_id == payload.sub
    IN
    IF payload = NoToken THEN VerifyNone(token)
    ELSE IF user_id = "" THEN VerifyNone(token)
    ELSE IF VerifyMatches(token) = {} THEN VerifyNone(token)
    ELSE \E i \in VerifyMatches(token) :
        IF ~is_valid(sessions[i]) THEN VerifyNone(token)
        ELSE IF user_not_active(user_id) THEN VerifyNone(token)
        ELSE /\ UNCHANGED sessions
             /\ last' = Call("verify", "", token, "user", 200, user_id)

VerifySession(token) ==
    /\ verify_session(token)
    /\ UNCHANGED <<now, users, buckets, limiter, issued, spent, loggedOut,
                   wrongRun, passes, jumps, req>>
    /\ UNCHANGED auditVars

\* --------------------------------------------------------- AuthService.logout
LogoutMatches(token) == {i \in 1..Len(sessions) : sessions[i].token = token}

logout(token) ==
    IF LogoutMatches(token) # {} THEN
        \E i \in LogoutMatches(token) :
            /\ sessions' = [sessions EXCEPT ![i].is_revoked = TRUE]
            /\ loggedOut' = loggedOut \cup {token}
            /\ last' = [Call("logout", "", token, "true", 200, sessions[i].user_id)
                           EXCEPT !.replay = sessions[i].is_revoked]
    ELSE
        /\ last' = Call("logout", "", token, "false", 200, "")
        /\ UNCHANGED <<sessions, loggedOut>>

Logout(token) ==
    /\ logout(token)
    /\ UNCHANGED <<now, users, buckets, limiter, issued, spent, wrongRun, passes,
                   jumps, req>>
    /\ UNCHANGED auditVars

\* ------------------------------------------------- AuditLogMiddleware
\* A path is the sequence of its pieces, "/api/auth/login" being
\* <<"/api", "/auth", "/login">>; a piece without a leading slash continues the
\* piece before it ("/healthcheck" is <<"/health", "check">>).
EXCLUDED_PATHS ==
    {<<"/health">>, <<"/health", "/live">>, <<"/health", "/ready">>, <<"/metrics">>,
     <<"/docs">>, <<"/redoc">>, <<"/openapi.json">>}

SENSITIVE_FIELDS == {"password", "token", "secret", "api_key", "refresh_token"}

\* str.startswith
startswith(str, prefix) ==
    Len(prefix) <= Len(str) /\ SubSeq(str, 1, Len(prefix)) = prefix

\* sub in str
Contains(str, sub) ==
    \E i \in 0..(Len(str) - Len(sub)) : SubSeq(str, i + 1, i + Len(sub)) = sub

\* str.lower() and str.upper() on the pieces of a path
LowerPiece(c) == IF c = "/AUTH" THEN "/auth" ELSE c

path_lower(path) == [i \in 1..Len(path) |-> LowerPiece(path[i])]

UpperPart(part) ==
    CASE part = "me" -> "ME"
      [] part = "u1" -> "U1"
      [] part = "u2" -> "U2"
      [] part = "login" -> "LOGIN"
      [] part = "healthcheck" -> "HEALTHCHECK"
      [] OTHER -> part

\* path.split("/") without the empty first part
PartOf(c) ==
    CASE c = "/api" -> "api"
      [] c = "/auth" -> "auth"
      [] c = "/AUTH" -> "AUTH"
      [] c = "/login" -> "login"
      [] c = "/me" -> "me"
      [] c = "/users" -> "users"
      [] c = "/cases" -> "cases"
      [] c = "/health" -> "health"
      [] c = "/u1" -> "u1"
      [] c = "/u2" -> "u2"
      [] c = "/c1" -> "c1"
      [] OTHER -> c

RECURSIVE split(_)
split(path) ==
    IF path = <<>> THEN <<>>
    ELSE IF Len(path) >= 2 /\ path[2] = "check"
         THEN <<"healthcheck">> \o split(SubSeq(path, 3, Len(path)))
         ELSE <<PartOf(path[1])>> \o split(Tail(path))

\* uuid.UUID(part) succeeds
IsUUID(part) == part \in UserIds \cup NewIds \cup {"c1"}

is_excluded(path) == \E ex \in EXCLUDED_PATHS : startswith(path, ex)

\* the case id, if the path holds one after its "cases" part
case_id_of(path) ==
    LET parts == split(path)
        at == {i \in 1..Len(parts) : parts[i] = "cases"}
    IN  IF at = {} THEN ""
        ELSE LET case_index == CHOOSE i \in at : \A j \in at : i <= j
             IN  IF Len(parts) > case_index /\ IsUUID(parts[case_index + 1])
                 THEN parts[case_index + 1] ELSE ""

\* The branches for evidence, message and report paths are left out: main.py
\* mounts the health and auth routers only, and no request below has such a path.
determine_action(method, path) ==
    LET pl == path_lower(path)
        parts == split(path)
        default == <<method, "_",
                     IF parts = <<>> THEN "ROOT" ELSE UpperPart(parts[Len(parts)])>>
    IN  IF Contains(pl, <<"/auth", "/login">>) THEN <<"AUTH_LOGIN">>
        ELSE IF Contains(pl, <<"/auth", "/logout">>) THEN <<"AUTH_LOGOUT">>
        ELSE IF Contains(pl, <<"/auth", "/refresh">>) THEN <<"AUTH_REFRESH_TOKEN">>
        ELSE IF Contains(pl, <<"/auth", "/change-password">>)
             THEN <<"AUTH_PASSWORD_CHANGE">>
        ELSE IF Contains(pl, <<"/auth", "/users">>) /\ method = "POST"
             THEN <<"USER_CREATE">>
        ELSE IF Contains(pl, <<"/auth", "/users">>) /\ method = "GET"
             THEN <<"USER_LIST">>
        ELSE IF ~Contains(pl, <<"/auth", "/users">>)
                /\ Contains(pl, <<"/auth", "/me">>) /\ method = "GET"
             THEN <<"USER_VIEW_PROFILE">>
        ELSE IF ~Contains(pl, <<"/auth", "/users">>)
                /\ Contains(pl, <<"/auth", "/me">>) /\ method = "PUT"
             THEN <<"USER_UPDATE_PROFILE">>
        ELSE IF Contains(pl, <<"/cases">>) /\ method = "POST" THEN <<"CASE_CREATE">>
        ELSE IF Contains(pl, <<"/cases">>) /\ method = "GET"
             THEN IF \E i \in 1..Len(pl) :
                        /\ pl[i] # "check"
                        /\ \A j \in i..Len(pl) : pl[j] # "/cases"
                  THEN <<"CASE_VIEW">> ELSE <<"CASE_LIST">>
        ELSE IF Contains(pl, <<"/cases">>) /\ method = "PUT" THEN <<"CASE_UPDATE">>
        ELSE IF Contains(pl, <<"/cases">>) /\ method = "DELETE" THEN <<"CASE_DELETE">>
        ELSE default

determine_action_category(path) ==
    LET pl == path_lower(path)
    IN  IF Contains(pl, <<"/auth">>) THEN "authentication"
        ELSE IF Contains(pl, <<"/cases">>) THEN "case_management"
        ELSE IF Contains(pl, <<"/users">>) THEN "administration"
        ELSE "other"

determine_resource_type(path) ==
    IF Contains(path, <<"/cases">>) THEN "case"
    ELSE IF Contains(path, <<"/users">>) THEN "user"
    ELSE ""

extract_resource_id(path) ==
    LET parts == split(path)
        ids == {i \in 1..Len(parts) : IsUUID(parts[i])}
    IN  IF ids = {} THEN ""
        ELSE parts[CHOOSE i \in ids : \A j \in ids : i <= j]

\* what call_next gives back: a response, or an unhandled exception
Response(status_code) == [kind |-> "response", status_code |-> status_code,
                          message |-> ""]

Fault(message) == [kind |-> "raise", status_code |-> 0, message |-> message]

\* the actor, from the Authorization header: verify_token only, no session lookup
actor_of(request) ==
    LET payload == IF request.authorization.scheme = "Bearer"
                   THEN verify_token(request.authorization.credentials)
                   ELSE NoToken
    IN  [user_id |-> payload.sub, username |-> payload.username,
         user_role |-> payload.role]

outcome_status(status_code) ==
    IF 200 <= status_code /\ status_code < 400 THEN "success" ELSE "failure"

\* dict(request.query_params) if request.query_params else None: a dict is a
\* set of <<name, value>> pairs, and the optional dict a sequence of none or one
details_of(request, transaction_id, elapsed) ==
    [transaction_id |-> transaction_id,
     path |-> request.path,
     method |-> request.method,
     query_params |-> IF request.query_params # {} THEN <<request.query_params>>
                      ELSE <<>>,
     duration_ms |-> (elapsed * 1000) \div TicksPerSec]

audit_entry(request, downstream, transaction_id, elapsed) ==
    LET actor == actor_of(request)
        raised == downstream.kind = "raise"
        status_code == IF raised THEN 500 ELSE downstream.status_code
    IN  [action |-> determine_action(request.method, request.path),
         action_category |-> determine_action_category(request.path),
         user_id |-> actor.user_id,
         username |-> actor.username,
         user_role |-> actor.user_role,
         ip_address |-> IF request.client # "" THEN request.client ELSE "unknown",
         request_method |-> request.method,
         request_path |-> request.path,
         case_id |-> case_id_of(request.path),
         resource_type |-> determine_resource_type(request.path),
         resource_id |-> extract_resource_id(request.path),
         status |-> IF raised THEN "error" ELSE outcome_status(status_code),
         status_code |-> status_code,
         error_message |-> downstream.message,
         details |-> details_of(request, transaction_id, elapsed),
         transaction_id |-> transaction_id]

log_to_database_no_commit(log, entry) == [log |-> log, raised |-> FALSE]

\* db.add, db.commit; on an exception db.rollback, which may raise itself
log_to_database(log, entry) ==
    IF sink = "ok" THEN [log |-> Append(log, entry), raised |-> FALSE]
    ELSE IF sink = "fails" THEN [log |-> log, raised |-> FALSE]
    ELSE [log |-> log, raised |-> TRUE]

log_error_reraised(raised) == raised

\* except Exception as log_error: logger.error(...)
log_error_escapes(raised) == FALSE

dispatch(request, downstream, elapsed) ==
    IF is_excluded(request.path) THEN
        /\ http' = [n |-> http.n + 1, request |-> <<request>>,
                    downstream |-> <<downstream>>, client |-> <<downstream>>,
                    audited |-> FALSE, sink |-> sink]
        /\ UNCHANGED audit_log
    ELSE
        LET transaction_id == http.n + 1
            entry == audit_entry(request, downstream, transaction_id, elapsed)
            written == log_to_database(audit_log, entry)
        IN  /\ audit_log' = written.log
            /\ http' = [n |-> http.n + 1, request |-> <<request>>,
                        downstream |-> <<downstream>>,
                        client |-> IF log_error_escapes(written.raised)
                                   THEN <<Fault("audit")>> ELSE <<downstream>>,
                        audited |-> TRUE, sink |-> sink]

Dispatch(request, downstream, elapsed) ==
    /\ http.n < MaxRequests
    /\ elapsed > 0 => now % Minutes(1) < MaxPhase
    /\ now' = now + elapsed
    /\ dispatch(request, downstream, elapsed)
    /\ UNCHANGED <<users, sessions, buckets, limiter, issued, spent, loggedOut,
                   wrongRun, passes, jumps, req, last, sink>>

SinkChanges(to) ==
    /\ sink # to
    /\ sink' = to
    /\ UNCHANGED <<now, users, sessions, buckets, limiter, issued, spent, loggedOut,
                   wrongRun, passes, jumps, req, last, audit_log, http>>

\* ------------------------------------------------------ user administration
\* User.is_admin
is_admin(user) == user.role = "admin"

\* schemas.UserUpdate: every field is optional; "" is an absent string and the
\* optional is_active is a sequence of none or one
UserUpdate(email, full_name, role, is_active) ==
    [email |-> email, full_name |-> full_name, role |-> role, is_active |-> is_active]

\* the token's own claims taken for the user
current_users_by_claims(token) ==
    LET payload == verify_token(token)
    IN  IF payload = NoToken \/ payload.sub \notin DOMAIN users THEN {""}
        ELSE {payload.sub}

\* the owner of the session row, whether active or not
current_users_inactive(token) ==
    LET payload == verify_token(token)
        user_id == payload.sub
    IN  IF payload = NoToken \/ user_id = "" \/ VerifyMatches(token) = {} THEN {""}
        ELSE {IF is_valid(sessions[i]) /\ user_id \in DOMAIN users
              THEN user_id ELSE "" : i \in VerifyMatches(token)}

\* the users verify_session may return for a token ("" for None), one per
\* session row that .first() may pick
current_users(token) ==
    LET payload == verify_token(token)
        user_id == payload.sub
    IN  IF payload = NoToken \/ user_id = "" \/ VerifyMatches(token) = {} THEN {""}
        ELSE {IF /\ is_valid(sessions[i])
                 /\ user_id \in DOMAIN users
                 /\ users[user_id].is_active
              THEN user_id ELSE "" : i \in VerifyMatches(token)}

\* security = HTTPBearer(): a request without credentials is answered by the
\* framework before the handler runs, with 403 or, in later releases, 401
NotAuthenticated(op, id) ==
    \E status_code \in {401, 403} :
        /\ last' = Raised(Call(op, id, NoToken, "NotAuthenticated", status_code, ""),
                          HTTPException(status_code, <<"Not authenticated">>, {}))
        /\ UNCHANGED users

\* get_current_user without a user
Unauthenticated(op, id, token) ==
    /\ last' = Raised(Call(op, id, token, "Unauthorized", 401, ""),
                      HTTPException(401, <<"Invalid authentication credentials">>,
                                    {<<"WWW-Authenticate", "Bearer">>}))
    /\ UNCHANGED users

Rejected(op, id, token, result, status_code, detail, actor) ==
    /\ last' = Raised(Call(op, id, token, result, status_code, actor),
                      HTTPException(status_code, <<detail>>, {}))
    /\ UNCHANGED users

\* AuthService.update_user on the row of an existing user
update_user(user, user_data) ==
    [user EXCEPT
        !.email = IF user_data.email # "" THEN user_data.email ELSE @,
        !.full_name = IF user_data.full_name # "" THEN user_data.full_name ELSE @,
        !.role = IF user_data.role # "" THEN user_data.role ELSE @,
        !.is_active = IF user_data.is_active # <<>> THEN user_data.is_active[1] ELSE @]

\* models.User: the unique indexes on username and email
IntegrityError(rows, id, row) ==
    \E v \in DOMAIN rows \ {id} :
        rows[v].username = row.username \/ rows[v].email = row.email

\* db.commit() of a changed user row; update_user catches nothing, so a
\* rejected commit ends the request in the global exception handler
CommitUser(op, user_id, token, row, actor) ==
    IF IntegrityError(users, user_id, row)
    THEN /\ last' = Raised(Call(op, user_id, token, "IntegrityError", 500, actor),
                           HTTPException(500, <<"An unexpected error occurred">>, {}))
         /\ UNCHANGED users
    ELSE /\ users' = [users EXCEPT ![user_id] = row]
         /\ last' = Call(op, user_id, token, "ok", 200, actor)

role_change_allowed(user_data, current_user) == FALSE

\* if user_data.role and not current_user.is_admin
role_change_denied(user_data, current_user) ==
    user_data.role # "" /\ ~is_admin(current_user)

\* PUT /auth/me
update_current_user(token, user_data) ==
    IF token = NoToken THEN NotAuthenticated("update_me", "")
    ELSE \E current_user \in current_users(token) :
        IF current_user = "" THEN Unauthenticated("update_me", "", token)
        ELSE IF role_change_denied(user_data, users[current_user]) THEN
            Rejected("update_me", current_user, token, "Forbidden", 403,
                     "Only admins can change user roles", current_user)
        ELSE CommitUser("update_me", current_user, token,
                        update_user(users[current_user], user_data), current_user)

\* PUT /auth/users/{user_id}
update_user_by_id(token, user_id, user_data) ==
    IF token = NoToken THEN NotAuthenticated("update_user", user_id)
    ELSE \E current_user \in current_users(token) :
        IF current_user = "" THEN Unauthenticated("update_user", user_id, token)
        ELSE IF ~is_admin(users[current_user]) THEN
            Rejected("update_user", user_id, token, "Forbidden", 403,
                     "Admin privileges required", current_user)
        ELSE IF ~IsUUID(user_id) THEN
            Rejected("update_user", user_id, token, "BadRequest", 400,
                     "Invalid user ID format", current_user)
        ELSE IF user_id \notin DOMAIN users THEN
            Rejected("update_user", user_id, token, "NotFound", 404,
                     "User not found", current_user)
        ELSE CommitUser("update_user", user_id, token,
                        update_user(users[user_id], user_data), current_user)

cannot_disable_nobody(user_uuid, current_user) == FALSE

\* if user_uuid == current_user.id: "Cannot disable your own account"
cannot_disable(user_uuid, current_user) == user_uuid = current_user

\* DELETE /auth/users/{user_id}
delete_user(token, user_id) ==
    IF token = NoToken THEN NotAuthenticated("delete_user", user_id)
    ELSE \E current_user \in current_users(token) :
        IF current_user = "" THEN Unauthenticated("delete_user", user_id, token)
        ELSE IF ~is_admin(users[current_user]) THEN
            Rejected("delete_user", user_id, token, "Forbidden", 403,
                     "Admin privileges required", current_user)
        ELSE IF ~IsUUID(user_id) THEN
            Rejected("delete_user", user_id, token, "BadRequest", 400,
                     "Invalid user ID format", current_user)
        ELSE IF cannot_disable(user_id, current_user) THEN
            Rejected("delete_user", user_id, token, "BadRequest", 400,
                     "Cannot disable your own account", current_user)
        ELSE IF user_id \notin DOMAIN users THEN
            Rejected("delete_user", user_id, token, "NotFound", 404,
                     "User not found", current_user)
        ELSE CommitUser("delete_user", user_id, token,
                        update_user(users[user_id], UserUpdate("", "", "", <<FALSE>>)),
                        current_user)

\* ------------------------------------------------- AuthService.create_user
\* schemas.UserCreate: the username validator returns v.lower()
UserCreate(username, email, password, full_name, role) ==
    [username |-> Lower(username), email |-> email, password |-> password,
     full_name |-> full_name, role |-> role]

\* User.username == user_data.username.lower()
username_registered(rows, user_data) ==
    \E v \in DOMAIN rows : rows[v].username = Lower(user_data.username)

\* User.email == user_data.email
email_registered(rows, user_data) ==
    \E v \in DOMAIN rows : rows[v].email = user_data.email

NewUser(user_data) ==
    [username |-> Lower(user_data.username), email |-> user_data.email,
     full_name |-> user_data.full_name,
     password_hash |-> get_password_hash(user_data.password),
     role |-> user_data.role, is_active |-> TRUE,
     failed_login_attempts |-> 0, locked_until |-> NULL,
     last_login |-> NULL, password_changed_at |-> NULL]

NewId == CHOOSE id \in NewIds : id \notin DOMAIN users

Insert(rows, id, row) ==
    [v \in DOMAIN rows \cup {id} |-> IF v = id THEN row ELSE rows[v]]

\* the two queries, then the insert and its commit
create_user(user_data, token, actor) ==
    IF username_registered(users, user_data) THEN
        Rejected("create_user", user_data.username, token, "Conflict", 400,
                 "Username already registered", actor)
    ELSE IF email_registered(users, user_data) THEN
        Rejected("create_user", user_data.username, token, "Conflict", 400,
                 "Email already registered", actor)
    ELSE IF IntegrityError(users, "", NewUser(user_data)) THEN
        Rejected("create_user", user_data.username, token, "Conflict", 400,
                 "Error creating user", actor)
    ELSE
        /\ Cardinality(DOMAIN users) < Cardinality(UserIds) + MaxNewUsers
        /\ users' = Insert(users, NewId, NewUser(user_data))
        /\ last' = Call("create_user", user_data.username, token, "ok", 200, actor)

\* POST /auth/users
create_user_by_admin(token, user_data) ==
    IF token = NoToken THEN NotAuthenticated("create_user", user_data.username)
    ELSE \E current_user \in current_users(token) :
        IF current_user = "" THEN
            Unauthenticated("create_user", user_data.username, token)
        ELSE IF ~is_admin(users[current_user]) THEN
            Rejected("create_user", user_data.username, token, "Forbidden", 403,
                     "Admin privileges required", current_user)
        ELSE create_user(user_data, token, current_user)

\* GET /auth/users
list_users(token) ==
    IF token = NoToken THEN NotAuthenticated("list_users", "")
    ELSE \E current_user \in current_users(token) :
        IF current_user = "" THEN Unauthenticated("list_users", "", token)
        ELSE IF ~is_admin(users[current_user]) THEN
            Rejected("list_users", "", token, "Forbidden", 403,
                     "Admin privileges required", current_user)
        ELSE /\ last' = Call("list_users", "", token, "ok", 200, current_user)
             /\ UNCHANGED users

\* GET /auth/users/{user_id}
get_user(token, user_id) ==
    IF token = NoToken THEN NotAuthenticated("get_user", user_id)
    ELSE \E current_user \in current_users(token) :
        IF current_user = "" THEN Unauthenticated("get_user", user_id, token)
        ELSE IF ~is_admin(users[current_user]) THEN
            Rejected("get_user", user_id, token, "Forbidden", 403,
                     "Admin privileges required", current_user)
        ELSE IF ~IsUUID(user_id) THEN
            Rejected("get_user", user_id, token, "BadRequest", 400,
                     "Invalid user ID format", current_user)
        ELSE IF user_id \notin DOMAIN users THEN
            Rejected("get_user", user_id, token, "NotFound", 404,
                     "User not found", current_user)
        ELSE /\ last' = Call("get_user", user_id, token, "ok", 200, current_user)
             /\ UNCHANGED users

\* GET /auth/me: the response is the row of the user get_current_user returned
get_current_user_info(token) ==
    IF token = NoToken THEN NotAuthenticated("get_me", "")
    ELSE \E current_user \in current_users(token) :
        IF current_user = "" THEN Unauthenticated("get_me", "", token)
        ELSE /\ last' = Call("get_me", users[current_user].username, token, "ok", 200,
                             current_user)
             /\ UNCHANGED users

AdminFrame ==
    UNCHANGED <<now, sessions, buckets, limiter, issued, spent, loggedOut,
                wrongRun, passes, jumps, req, audit_log, sink, http>>

UpdateCurrentUser(token, user_data) ==
    update_current_user(token, user_data) /\ AdminFrame

UpdateUserById(token, user_id, user_data) ==
    update_user_by_id(token, user_id, user_data) /\ AdminFrame

DeleteUser(token, user_id) ==
    delete_user(token, user_id) /\ AdminFrame

\* ------------------------------------------------ AuthService.change_password
current_password_unchecked(current_password, user) == TRUE

\* verify_password(current_password, user.password_hash)
current_password_ok(current_password, user) ==
    verify_password(current_password, user.password_hash)

sessions_revoked(rows, user_id) ==
    [i \in 1..Len(rows) |->
        IF rows[i].user_id = user_id THEN [rows[i] EXCEPT !.is_revoked = TRUE]
        ELSE rows[i]]

\* the commit writes the user row; no session row is queried or written
sessions_kept(rows, user_id) == rows

\* POST /auth/change-password: get_current_user, then the service call with
\* the id of the user it returned (whose row therefore exists)
change_password(token, current_password, new_password) ==
    IF token = NoToken THEN
        /\ NotAuthenticated("change_password", "")
        /\ UNCHANGED sessions
    ELSE \E current_user \in current_users(token) :
        IF current_user = "" THEN
            /\ Unauthenticated("change_password", "", token)
            /\ UNCHANGED sessions
        ELSE IF ~current_password_ok(current_password, users[current_user]) THEN
            /\ Rejected("change_password", current_user, token, "InvalidCredentials",
                        400, "Current password is incorrect", current_user)
            /\ UNCHANGED sessions
        ELSE
            /\ users' = [users EXCEPT
                           ![current_user].password_hash = get_password_hash(new_password),
                           ![current_user].password_changed_at = now]
            /\ sessions' = sessions_kept(sessions, current_user)
            /\ last' = Call("change_password", current_user, token, "ok", 200,
                            current_user)

ChangePassword(token, current_password, new_password) ==
    /\ change_password(token, current_password, new_password)
    /\ UNCHANGED <<now, buckets, limiter, issued, spent, loggedOut, wrongRun,
                   passes, jumps, req>>
    /\ UNCHANGED auditVars

\* AuthService.create_user, one call per worker, in two steps: the two
\* queries, then the insert and its commit. Each call has its own database
\* session and holds no lock between the steps.
ServiceFrame ==
    UNCHANGED <<now, sessions, buckets, limiter, issued, spent, loggedOut,
                wrongRun, passes, jumps, audit_log, sink, http>>

CreateFails(w, user_data, detail) ==
    /\ req' = [req EXCEPT ![w] = [Idle EXCEPT !.pc = "done", !.result = "Conflict",
                                              !.data = <<user_data>>]]
    /\ Rejected("create_user", user_data.username, NoToken, "Conflict", 400, detail, "")

CreateBegin(w, user_data) ==
    /\ req[w].pc \in {"idle", "done"}
    /\ Cardinality(DOMAIN users) < Cardinality(UserIds) + MaxNewUsers
    /\ IF username_registered(users, user_data) THEN
           CreateFails(w, user_data, "Username already registered")
       ELSE IF email_registered(users, user_data) THEN
           CreateFails(w, user_data, "Email already registered")
       ELSE
           /\ req' = [req EXCEPT ![w] = [Idle EXCEPT !.pc = "checked",
                                                     !.data = <<user_data>>]]
           /\ last' = Call("create-begin", user_data.username, NoToken, "", 0, "")
           /\ UNCHANGED users
    /\ ServiceFrame

CreateCommit(w) ==
    /\ req[w].pc = "checked"
    /\ LET user_data == req[w].data[1]
       IN  IF IntegrityError(users, "", NewUser(user_data)) THEN
               CreateFails(w, user_data, "Error creating user")
           ELSE
               /\ Cardinality(DOMAIN users) < Cardinality(UserIds) + MaxNewUsers
               /\ users' = Insert(users, NewId, NewUser(user_data))
               /\ req' = [req EXCEPT ![w].pc = "done", ![w].result = "ok"]
               /\ last' = Call("create_user", user_data.username, NoToken, "ok", 200, "")
    /\ ServiceFrame

\* AuthService.update_user called with a user id
update_user_row(user_id, user_data) ==
    IF user_id \notin DOMAIN users THEN
        Rejected("update_user", user_id, NoToken, "NotFound", 404, "User not found", "")
    ELSE CommitUser("update_user", user_id, NoToken,
                    update_user(users[user_id], user_data), "")

UpdateUserRow(user_id, user_data) ==
    /\ update_user_row(user_id, user_data)
    /\ UNCHANGED req
    /\ ServiceFrame

CreateUserByAdmin(token, user_data) ==
    create_user_by_admin(token, user_data) /\ AdminFrame

ListUsers(token) == list_users(token) /\ AdminFrame

GetUser(token, user_id) == get_user(token, user_id) /\ AdminFrame

GetCurrentUserInfo(token) == get_current_user_info(token) /\ AdminFrame

\* --------------------------------------------------------- specifications
\* login attempts of one user against the lockout and the rate limiter
NextLogin ==
    \/ Tick(MaxPhase)
    \/ Jump(Minutes(WaitMinutes))
    \/ StoreFails
    \/ StoreRecovers
    \/ \E p \in Passwords :
          AuthenticateUser("alice", p) /\ Len(sessions') <= MaxLoginSessions

SpecLogin == Init /\ [][NextLogin]_vars

\* one user's attempts at more distinct instants than the limiter allows
NextLimited ==
    \/ Tick(LimitPhase)
    \/ Jump(Minutes(WaitMinutes)) /\ jumps = 0
    \/ \E p \in Passwords :
          AuthenticateUser("alice", p) /\ Len(sessions') <= MaxLoginSessions

SpecLimited == Init /\ [][NextLimited]_vars

\* sessions of two users: login, refresh, verification, logout
Presentable == issued \cup {ForgedToken}

NextSession ==
    \/ Tick(SessionPhase)
    \/ \E n \in {"alice", "bob"} : AuthenticateUser(n, "right")
    \/ \E t \in Presentable : RefreshAccessToken(t)
    \/ \E t \in Presentable : VerifySession(t)
    \/ \E t \in Presentable : Logout(t)

InitSession == Init /\ limiter = "up"

SpecSession == InitSession /\ [][NextSession]_vars

\* two workers serving refresh requests at the same time
NextConc ==
    \/ Tick(SessionPhase)
    \/ AuthenticateUser("alice", "right") /\ Len(sessions') <= MaxLoginSessions
    \/ \E w \in Workers, t \in Presentable : RefreshBegin(w, t)
    \/ \E w \in Workers : RefreshPrepare(w)
    \/ \E w \in Workers : RefreshCommit(w)

SpecConc == InitSession /\ [][NextConc]_vars

\* wrong-password attempts under an existing and under an unknown user name
NextEnum ==
    \/ Tick(MaxPhase)
    \/ Jump(Minutes(WaitMinutes)) /\ jumps = 0
    \/ \E n \in {"alice", "ghost"} : AuthenticateUser(n, "wrong")

SpecEnum == Init /\ [][NextEnum]_vars

\* requests through the audit middleware
Bearer(token) == [scheme |-> "Bearer", credentials |-> token]

NoAuthorization == [scheme |-> "", credentials |-> NoToken]

Request(method, path, authorization, query_params) ==
    [method |-> method, path |-> path, authorization |-> authorization,
     query_params |-> query_params, client |-> "10.0.0.7"]

LoginRequest ==
    Request("POST", <<"/api", "/AUTH", "/login">>, NoAuthorization,
            {<<"password", "Secret#1">>})

CaseRequest ==
    Request("GET", <<"/api", "/cases", "/c1">>,
            [scheme |-> "Basic", credentials |-> NoToken], {<<"page", "2">>})

DeleteUserRequest ==
    Request("DELETE", <<"/api", "/auth", "/users", "/u2">>, NoAuthorization,
            {<<"token", "eyJ.x.y">>})

RootRequest == [Request("GET", <<>>, NoAuthorization, {}) EXCEPT !.client = ""]

MeRequest(token) == Request("GET", <<"/api", "/auth", "/me">>, Bearer(token), {})

\* request, what the downstream handler does with it, the ticks it takes
Exchanges ==
    {<<LoginRequest, Response(401), 0>>,
     <<LoginRequest, Response(200), 1>>,
     <<CaseRequest, Response(200), 0>>,
     <<CaseRequest, Fault("boom"), 1>>,
     <<DeleteUserRequest, Response(401), 0>>,
     <<DeleteUserRequest, Fault("boom"), 0>>,
     <<RootRequest, Response(200), 0>>,
     <<Request("GET", <<"/health">>, NoAuthorization, {}), Response(200), 0>>,
     <<Request("GET", <<"/health", "check">>, NoAuthorization, {}),
       Fault("boom"), 0>>}
    \cup {<<MeRequest(t), Response(200), 0>> : t \in Presentable}
    \cup {<<MeRequest(t), Response(401), 0>> : t \in Presentable}

NextAudit ==
    \/ \E x \in Exchanges : Dispatch(x[1], x[2], x[3])
    \/ \E to \in {"ok", "fails", "broken"} : SinkChanges(to)
    \/ AuthenticateUser("alice", "right") /\ Len(sessions') <= MaxLoginSessions

SpecAudit == InitSession /\ [][NextAudit]_vars

\* user administration next to sessions
PathIds == UserIds \cup {"c1", "not-a-uuid"}

Updates ==
    {UserUpdate("new@lab.org", "New Name", "", <<>>),
     UserUpdate("", "", "admin", <<>>),
     UserUpdate("", "", "", <<FALSE>>)}

\* the tokens the session rows hold now
AccessTokens == {sessions[i].token : i \in 1..Len(sessions)}

RefreshTokens == {sessions[i].refresh_token : i \in 1..Len(sessions)}

\* a user who holds no session row yet
NoSessionOf(name) ==
    \A i \in 1..Len(sessions) : users[sessions[i].user_id].username # name

NextAdmin ==
    \/ Tick(AdminPhase)
    \/ \E n \in {"alice", "bob"} : NoSessionOf(n) /\ AuthenticateUser(n, "right")
    \/ \E t \in RefreshTokens : RefreshAccessToken(t)
    \/ \E t \in AccessTokens, d \in Updates : UpdateCurrentUser(t, d)
    \/ \E t \in AccessTokens, id \in UserIds :
          UpdateUserById(t, id, UserUpdate("", "", "", <<FALSE>>))
    \/ \E t \in AccessTokens \cup {ForgedToken}, id \in PathIds : DeleteUser(t, id)

SpecAdmin == InitSession /\ [][NextAdmin]_vars

\* logins of a user whom the admin deactivates
NextDisabled ==
    \/ Tick(MaxPhase)
    \/ Jump(Minutes(WaitMinutes)) /\ jumps = 0
    \/ NoSessionOf("alice") /\ AuthenticateUser("alice", "right")
    \/ \E p \in Passwords : AuthenticateUser("bob", p)
    \/ \E t \in AccessTokens : DeleteUser(t, "u2")

SpecDisabled == Init /\ [][NextDisabled]_vars

\* a user who changes the password, between logins with the old and the new one
NewPasswords == {"renewed", "right"}

NextPassword ==
    \/ Tick(SessionPhase)
    \/ \E p \in NewPasswords :
          AuthenticateUser("alice", p) /\ Len(sessions') <= MaxSessions
    \/ \E t \in AccessTokens \cup {ForgedToken}, c \in Passwords, p \in NewPasswords :
          ChangePassword(t, c, p)
    \/ \E t \in AccessTokens : VerifySession(t)

SpecPassword == InitSession /\ [][NextPassword]_vars

\* every user endpoint, called with each kind of credentials
NewUsers ==
    {UserCreate("carol", "carol@lab.org", "right", "Carol", "viewer"),
     UserCreate("ALICE", "second@lab.org", "right", "Alice", "admin")}

RoleUpdates == {UserUpdate("", "", "admin", <<>>), UserUpdate("", "", "viewer", <<>>)}

Credentials == AccessTokens \cup {NoToken}

NextAuthz ==
    \/ \E n \in {"alice", "bob"} : NoSessionOf(n) /\ AuthenticateUser(n, "right")
    \/ \E t \in AccessTokens : Logout(t)
    \/ \E t \in Credentials, d \in NewUsers : CreateUserByAdmin(t, d)
    \/ \E t \in Credentials : ListUsers(t)
    \/ \E t \in Credentials, id \in {"u2", "u4", "not-a-uuid"} : GetUser(t, id)
    \/ \E t \in Credentials, id \in UserIds, d \in RoleUpdates : UpdateUserById(t, id, d)
    \/ \E t \in Credentials, id \in UserIds : DeleteUser(t, id)
    \/ \E t \in Credentials \cup {ForgedToken} : GetCurrentUserInfo(t)

SpecAuthz == InitSession /\ [][NextAuthz]_vars

\* two workers creating users while rows are updated
CreateInputs ==
    {UserCreate("carol", "carol@lab.org", "right", "Carol", "viewer"),
     UserCreate("Carol", "second@lab.org", "right", "Carol", "examiner"),
     UserCreate("dave", "carol@lab.org", "right", "Dave", "viewer"),
     UserCreate("ALICE", "third@lab.org", "right", "Alice", "admin")}

EmailUpdates ==
    {UserUpdate("carol@lab.org", "", "", <<>>),
     UserUpdate("bob@lab.org", "", "", <<>>),
     UserUpdate("", "Renamed", "", <<>>)}

NextCreate ==
    \/ \E w \in Workers, d \in CreateInputs : CreateBegin(w, d)
    \/ \E w \in Workers : CreateCommit(w)
    \/ \E id \in UserIds \cup {"u3", "u6"}, d \in EmailUpdates : UpdateUserRow(id, d)

SpecCreate == InitSession /\ [][NextCreate]_vars

\* two workers serving logins of one user with a wrong password
NextRace ==
    \/ Tick(MaxPhase)
    \/ \E w \in Workers : AuthenticateBegin(w, "alice", "wrong")
    \/ \E w \in Workers : WrongPasswordCommit(w)

SpecRace == InitSession /\ [][NextRace]_vars

\* an admin deactivates a user and lets them in again
Reactivation == UserUpdate("", "Bob Restored", "", <<TRUE>>)

NextReactivate ==
    \/ Tick(AdminPhase)
    \/ \E n \in {"alice", "bob"} : NoSessionOf(n) /\ AuthenticateUser(n, "right")
    \/ \E t \in AccessTokens : DeleteUser(t, "u2")
    \/ \E t \in AccessTokens :
          ~users["u2"].is_active /\ UpdateUserById(t, "u2", Reactivation)
    \/ \E t \in AccessTokens : VerifySession(t)

SpecReactivate == InitSession /\ [][NextReactivate]_vars

\* users and admins asking for other roles
NextRole ==
    \/ \E n \in {"alice", "bob"} : NoSessionOf(n) /\ AuthenticateUser(n, "right")
    \/ \E t \in Credentials, d \in RoleUpdates : UpdateCurrentUser(t, d)
    \/ \E t \in Credentials, id \in UserIds, d \in RoleUpdates :
          UpdateUserById(t, id, d)
    \/ \E t \in Credentials, d \in NewUsers : CreateUserByAdmin(t, d)
    \/ \E t \in AccessTokens : Logout(t)

SpecRole == InitSession /\ [][NextRole]_vars

\* requests that carry the token of a session, before and after its logout;
\* the handler answers 200 to the token of a valid session and 401 otherwise
NextAuditSession ==
    \/ Tick(SessionPhase)
    \/ \E n \in {"alice", "bob"} : NoSessionOf(n) /\ AuthenticateUser(n, "right")
    \/ \E t \in AccessTokens : Logout(t)
    \/ \E t \in AccessTokens \cup {ForgedToken} :
          Dispatch(MeRequest(t),
                   Response(IF current_users(t) = {""} THEN 401 ELSE 200), 0)

SpecAuditSession == InitSession /\ [][NextAuditSession]_vars

\* two workers serving wrong-password logins of one user over six instants
NextRaceLimited ==
    \/ Tick(LimitPhase)
    \/ \E w \in Workers : AuthenticateBegin(w, "alice", "wrong")
    \/ \E w \in Workers : WrongPasswordCommit(w)

SpecRaceLimited == InitSession /\ [][NextRaceLimited]_vars

\* sessions next to updates of their owners
NextOwner ==
    \/ Tick(SessionPhase)
    \/ \E n \in {"alice", "bob"} : AuthenticateUser(n, "right")
    \/ \E t \in RefreshTokens : RefreshAccessToken(t)
    \/ \E t \in Presentable : VerifySession(t)
    \/ \E t \in AccessTokens : Logout(t)
    \/ \E t \in AccessTokens :
          UpdateUserById(t, "u2", UserUpdate("new@lab.org", "New Name", "", <<>>))

SpecOwner == InitSession /\ [][NextOwner]_vars

\* logins that spell one user's name in two ways
NextCase ==
    \/ Tick(MaxPhase)
    \/ \E n \in {"alice", "ALICE"}, p \in Passwords :
          AuthenticateUser(n, p) /\ Len(sessions') <= MaxLoginSessions

SpecCase == InitSession /\ [][NextCase]_vars

\* ------------------------------------------------------------------ claims
\* a step in which a handler ran and reported as op
Handled(op) == last' # last /\ last'.op = op

\* the user a submitted name resolves to
KeyOf(u) == {k \in Names : Lower(k) = users[u].username}

\* entries of a key's bucket that are younger than the 15-minute window
InWindow(k) == {s \in buckets[k].entries : s > now - Minutes(15)}

LockedNow(u) == users[u].locked_until # NULL /\ users[u].locked_until > now

\* C1: after k consecutive wrong-password verifications of a user who started
\* with a zero counter and no lock, failed_login_attempts is k; locked_until is
\* unset while k < 5 and is the time of the 5th attempt plus 30 minutes after it.
C1_FailedAttemptsCount ==
    \A u \in UserIds :
        /\ users[u].failed_login_attempts = wrongRun[u]
        /\ wrongRun[u] < 5 => users[u].locked_until = NULL
        /\ (/\ wrongRun[u] = 5
            /\ last.op = "authenticate"
            /\ last.user = u
            /\ last.result = "InvalidCredentials")
           => users[u].locked_until = last.at + Minutes(30)

C1_Witness ==
    /\ wrongRun["u1"] = 5
    /\ last.op = "authenticate" /\ last.user = "u1"
    /\ last.result = "InvalidCredentials"
    /\ users["u1"].failed_login_attempts = 5
    /\ users["u1"].locked_until = last.at + Minutes(30)

\* C2 (as claimed): after 5 consecutive wrong-password logins, an authenticate
\* call for that user before the 30 minutes are over fails with AccountLocked
\* (403) and with no other error.
C2_SixthIsAccountLocked ==
    [][\A u \in UserIds :
        (/\ wrongRun[u] = 5 /\ LockedNow(u)
         /\ limiter = "up"
         /\ Handled("authenticate") /\ last'.key \in KeyOf(u))
        => (last'.result = "AccountLocked" /\ last'.status = 403)]_vars

\* C2 (amended): such a call never succeeds; it fails with RateLimited (429)
\* while the key's bucket holds 5 or more attempts of the last 15 minutes and
\* the store is reachable, and with AccountLocked (403) otherwise.
C2_SixthIsRejected ==
    [][\A u \in UserIds :
        (/\ wrongRun[u] = 5 /\ LockedNow(u)
         /\ Handled("authenticate") /\ last'.key \in KeyOf(u))
        => /\ sessions' = sessions
           /\ users' = users
           /\ IF limiter = "up" /\ Cardinality(InWindow(last'.key)) >= 5
              THEN last'.result = "RateLimited" /\ last'.status = 429
              ELSE last'.result = "AccountLocked" /\ last'.status = 403]_vars

C2_Witness ==
    /\ wrongRun["u1"] = 5
    /\ last.op = "authenticate" /\ last.user = "u1"
    /\ last.result = "AccountLocked" /\ last.pwok
    /\ last.at < users["u1"].locked_until
    /\ limiter = "up"

\* C3: while a user's locked_until is set and in the future, no authenticate
\* call for that user succeeds: no session row is added and no token returned,
\* for every password and every state of the limiter store.
C3_LockedNeverLogsIn ==
    [][\A u \in UserIds :
        (LockedNow(u) /\ Handled("authenticate") /\ last'.key \in KeyOf(u))
        => /\ last'.result # "ok"
           /\ last'.tok = NoToken /\ last'.out = NoToken
           /\ sessions' = sessions
           /\ issued' = issued]_vars

C3_Witness ==
    /\ last.op = "authenticate" /\ last.user = "u1"
    /\ last.result = "AccountLocked" /\ last.pwok /\ last.locked
    /\ last.at = now /\ LockedNow("u1")
    /\ limiter = "down"

\* C4 (as claimed): every successful authenticate leaves the user with
\* failed_login_attempts = 0 and locked_until unset and the bucket of the
\* submitted key empty.
C4_SuccessClearsAll ==
    [][Handled("authenticate") /\ last'.result = "ok"
        => /\ users'[last'.user].failed_login_attempts = 0
           /\ users'[last'.user].locked_until = NULL
           /\ buckets'[last'.key].entries = {}]_vars

\* C4 (amended): every successful authenticate leaves the user with
\* failed_login_attempts = 0 and locked_until unset, and empties the bucket of
\* the submitted key if the limiter store is reachable; if it is not, the
\* bucket is left as it was.
C4_SuccessResets ==
    [][Handled("authenticate") /\ last'.result = "ok"
        => /\ users'[last'.user].failed_login_attempts = 0
           /\ users'[last'.user].locked_until = NULL
           /\ IF limiter = "up" THEN buckets'[last'.key].entries = {}
              ELSE buckets' = buckets]_vars

C4_Witness ==
    /\ last.op = "authenticate" /\ last.result = "ok" /\ last.user = "u1"
    /\ last.pre = 4
    /\ last.at < Minutes(15)
    /\ limiter = "up"
    /\ users["u1"].failed_login_attempts = 0
    /\ buckets["alice"].entries = {}

\* C5 (as claimed): for every key, at most N = 5 authenticate attempts get
\* past the rate-limit check within a 15-minute window while the store is
\* reachable.
C5_AtMostNPass ==
    \A k \in Names : passes[k] <= 5

\* C5 (amended): with the store reachable, an attempt is rejected with
\* RateLimited (429) exactly when the key's bucket holds N = 5 or more recorded
\* attempts younger than 15 minutes; an attempt is recorded only when it ends
\* in InvalidCredentials, a success empties the bucket, the other outcomes add
\* nothing; once every recorded attempt is 15 minutes old, the next attempt
\* passes the check.
C5_WindowDecides ==
    [][\A k \in Names :
        (limiter = "up" /\ Handled("authenticate") /\ last'.key = k)
        => /\ (last'.result = "RateLimited") = (Cardinality(InWindow(k)) >= 5)
           /\ last'.result = "RateLimited" => last'.status = 429
           /\ (\A s \in buckets[k].entries : s + Minutes(15) <= now)
                 => last'.result # "RateLimited"
           /\ buckets'[k].entries =
                 CASE last'.result = "InvalidCredentials" -> InWindow(k) \cup {now}
                   [] last'.result = "ok" -> {}
                   [] OTHER -> InWindow(k)]_vars

C5_Witness ==
    /\ last.op = "authenticate" /\ last.key = "alice"
    /\ last.result = "RateLimited" /\ last.status = 429
    /\ last.at >= Minutes(WaitMinutes)
    /\ Cardinality(buckets["alice"].entries) = 5
    /\ \E s \in buckets["alice"].entries : s < Minutes(WaitMinutes)
    /\ limiter = "up"

\* C6: while the store is unreachable (no client, or its calls raise),
\* check_rate_limit answers (allowed, max_attempts), record_attempt and reset
\* leave the store as it is, and authenticate goes on to the credential check:
\* it is never RateLimited and the buckets are unchanged.
C6_FailOpen ==
    [][limiter # "up" =>
        /\ \A k \in Names :
              /\ check_rate_limit(buckets, k, 5, 15).allowed
              /\ check_rate_limit(buckets, k, 5, 15).remaining = 5
              /\ check_rate_limit(buckets, k, 5, 15).store = buckets
              /\ record_attempt(buckets, k, 15) = buckets
              /\ reset(buckets, k) = buckets
        /\ Handled("authenticate")
              => /\ last'.result \in {"InvalidCredentials", "AccountLocked",
                                    "Forbidden", "ok"}
                 /\ buckets' = buckets]_vars

C6_Witness ==
    /\ limiter = "down"
    /\ last.op = "authenticate" /\ last.key = "alice" /\ last.at = now
    /\ last.result = "InvalidCredentials"
    /\ buckets["alice"].entries # {}
    /\ now \notin buckets["alice"].entries

\* C7: refresh rotation is one-shot: once refresh(rt) has succeeded, every
\* later refresh(rt) fails with InvalidToken (401) and changes no session row,
\* also when it comes within the clock second in which rt was issued.
C7_RefreshOneShot ==
    [][(Handled("refresh") /\ last'.tok \in spent)
        => /\ last'.result = "InvalidToken" /\ last'.status = 401
           /\ sessions' = sessions]_vars

\* C8: of two refresh_access_token calls that present the same refresh token
\* and run concurrently (each began before the other had committed), at most
\* one succeeds; checked for tokens presented in a later second than the one
\* they were issued in, so that both calls rotate the token.
C8_OneConcurrentRefreshWins ==
    \A v, w \in Workers :
        (/\ v # w
         /\ req[v].pc = "done" /\ req[w].pc = "done"
         /\ req[v].rt = req[w].rt
         /\ req[v].overlap /\ req[w].overlap
         /\ req[v].rt.iat < req[v].new_refresh.iat
         /\ req[w].rt.iat < req[w].new_refresh.iat)
        => ~(req[v].result = "ok" /\ req[w].result = "ok")

\* C9: once logout(token) has matched a session, verify_session(token) returns
\* none from then on, whatever logins, refreshes and logouts come in between.
C9_LoggedOutTokenRejected ==
    (last.op = "verify" /\ last.tok \in loggedOut) => last.result = "none"

\* C10: logout(token of session A) changes the revoked flag of A and nothing
\* else: every other session row is left as it was.
C10_LogoutTouchesOneSession ==
    [][Handled("logout") =>
        \A a \in 1..Len(sessions) :
            sessions[a].token = last'.tok
            => \A b \in 1..Len(sessions) : b # a => sessions'[b] = sessions[b]]_vars

\* C11: no two session rows that are both non-revoked and non-expired hold the
\* same access-token value, also when both were produced for one user within
\* one clock second.
C11_ActiveTokensDistinct ==
    \A i, j \in 1..Len(sessions) :
        (/\ i # j
         /\ ~sessions[i].is_revoked /\ now < sessions[i].expires_at
         /\ ~sessions[j].is_revoked /\ now < sessions[j].expires_at)
        => sessions[i].token # sessions[j].token

\* what the caller of a handler sees of its last call
ResponseOf(call) ==
    [status |-> call.status, detail |-> call.detail, headers |-> call.headers]

\* C12: a wrong-password attempt gets the same answer whether the submitted user
\* name is unknown or belongs to an existing, unlocked user: past the rate-limit
\* check it is 401 with the same detail and the same headers in both cases, and
\* the key's bucket gains exactly the one attempt made now; what the call
\* answers depends on the key's bucket only, never on whether the user exists.
C12_UnknownLikeWrongPassword ==
    [][\A k \in Names :
        (/\ Handled("authenticate") /\ last'.key = k
         /\ \A u \in UserIds : k \in KeyOf(u) => ~LockedNow(u))
        => IF limiter = "up" /\ Cardinality(InWindow(k)) >= 5
           THEN /\ ResponseOf(last') =
                     [status |-> 429,
                      detail |-> <<"Too many login attempts. Please try again later.">>,
                      headers |-> {}]
                /\ buckets'[k].entries = InWindow(k)
           ELSE /\ ResponseOf(last') =
                     [status |-> 401,
                      detail |-> <<"Incorrect username or password">>,
                      headers |-> {<<"WWW-Authenticate", "Bearer">>}]
                /\ buckets'[k].entries =
                     IF limiter = "up" THEN InWindow(k) \cup {now}
                     ELSE buckets[k].entries]_vars

C12_Witness ==
    /\ last.op = "authenticate" /\ last.key = "ghost" /\ last.user = ""
    /\ last.status = 401 /\ last.at = now
    /\ users["u1"].failed_login_attempts = 1
    /\ ~LockedNow("u1")
    /\ buckets["ghost"].entries = {now}
    /\ buckets["alice"].entries = {now}

\* a step in which the middleware served a request
Dispatched == http'.n = http.n + 1

\* C13 (as claimed): every request to a non-excluded path adds exactly one
\* record to the audit log, never none and never two: one with the response's
\* status when the handler returns, one with outcome error and status 500 when
\* it raises, and the fault is raised again.
C13_ExactlyOneRecord ==
    [][(Dispatched /\ ~is_excluded(http'.request[1].path))
        => /\ Len(audit_log') = Len(audit_log) + 1
           /\ SubSeq(audit_log', 1, Len(audit_log)) = audit_log]_vars

\* C13 (amended): every request to a non-excluded path makes exactly one write
\* of an audit record: while the audit table takes the write the log grows by
\* that one record (the response's status and success or failure when the
\* handler returns; error and 500 when it raises, the fault being raised
\* again), and while the write raises the log grows by none; never by two.
C13_OneWritePerRequest ==
    [][(Dispatched /\ ~is_excluded(http'.request[1].path))
        => LET request == http'.request[1]
               downstream == http'.downstream[1]
           IN  IF sink = "ok"
               THEN /\ Len(audit_log') = Len(audit_log) + 1
                    /\ SubSeq(audit_log', 1, Len(audit_log)) = audit_log
                    /\ LET e == audit_log'[Len(audit_log')]
                       IN  /\ e.request_path = request.path
                           /\ e.request_method = request.method
                           /\ e.transaction_id = http'.n
                           /\ IF downstream.kind = "raise"
                              THEN /\ e.status = "error" /\ e.status_code = 500
                                   /\ http'.client = <<downstream>>
                              ELSE /\ e.status_code = downstream.status_code
                                   /\ e.status = IF downstream.status_code \in 200..399
                                                 THEN "success" ELSE "failure"
               ELSE audit_log' = audit_log]_vars

C13_Witness ==
    /\ Len(audit_log) = 2
    /\ audit_log[1].status = "failure"
    /\ audit_log[2].status = "error" /\ audit_log[2].status_code = 500
    /\ audit_log[2].transaction_id = 2
    /\ http.downstream = <<Fault("boom")>> /\ http.client = <<Fault("boom")>>
    /\ http.sink = "ok"

\* C14: when the write of the audit record raises (on add or commit, and also
\* when the rollback raises after it), the request ends as the downstream
\* handler ended it: its response goes to the client as produced, or its fault
\* propagates; no fault of the audit logger reaches the client.
C14_AuditFailureSwallowed ==
    [][(Dispatched /\ sink # "ok")
        => /\ http'.client = http'.downstream
           /\ audit_log' = audit_log]_vars

C14_Witness ==
    /\ http.n = 2 /\ http.audited /\ http.sink = "broken"
    /\ http.downstream = <<Response(200)>> /\ http.client = <<Response(200)>>
    /\ audit_log = <<>>

\* C15: the detail payload of no audit record holds a field named password,
\* token, secret, api_key or refresh_token, also not among the query
\* parameters it records.
C15_NoSecretsInDetails ==
    \A i \in 1..Len(audit_log) :
        /\ DOMAIN audit_log[i].details \cap SENSITIVE_FIELDS = {}
        /\ \A d \in {audit_log[i].details.query_params[k] :
                       k \in 1..Len(audit_log[i].details.query_params)} :
              \A param \in d : param[1] \notin SENSITIVE_FIELDS

\* C17: refresh with a refresh token that is signature-valid and unexpired and
\* is held by a non-revoked session row with an unexpired refresh expiry, whose
\* owning user has been deactivated, fails with Forbidden (403) and leaves every
\* session row, its token values and expiries, as it was.
C17_RefreshOfDeactivatedUser ==
    [][\A u \in UserIds :
        (/\ Handled("refresh")
         /\ last'.tok.sig /\ last'.tok.typ = "refresh" /\ last'.tok.exp >= NowSec
         /\ last'.tok.sub = u /\ ~users[u].is_active
         /\ \A i \in 1..Len(sessions) :
               (sessions[i].refresh_token = last'.tok /\ ~sessions[i].is_revoked)
               => sessions[i].refresh_expires_at >= now
         /\ \E i \in 1..Len(sessions) :
               sessions[i].refresh_token = last'.tok /\ ~sessions[i].is_revoked)
        => /\ last'.result = "Forbidden" /\ last'.status = 403
           /\ sessions' = sessions
           /\ issued' = issued]_vars

C17_Witness ==
    /\ last.op = "refresh" /\ last.result = "Forbidden" /\ last.status = 403
    /\ last.tok.sub = "u2" /\ ~users["u2"].is_active
    /\ last.tok.iat < NowSec
    /\ \E i \in 1..Len(sessions) :
          sessions[i].refresh_token = last.tok /\ ~sessions[i].is_revoked

\* the acting user of a step is an admin
ByAdmin == last'.user \in UserIds /\ users[last'.user].role = "admin"

\* C18: DELETE /auth/users/{id} by an admin: with the admin's own id it answers
\* 400 and the admin stays active; with the id of another existing user it sets
\* that user's is_active to false, changes nothing else and deletes no row.
C18_DeleteDeactivatesOthersOnly ==
    [][(Handled("delete_user") /\ ByAdmin)
        => /\ DOMAIN users' = DOMAIN users
           /\ IF last'.key = last'.user
              THEN /\ last'.status = 400
                   /\ users' = users
                   /\ users'[last'.user].is_active
              ELSE IF last'.key \in UserIds
              THEN /\ last'.status = 200
                   /\ users' = [users EXCEPT ![last'.key].is_active = FALSE]
              ELSE users' = users /\ last'.status \in {400, 404}]_vars

C18_Witness ==
    /\ last.op = "delete_user" /\ last.user = "u1" /\ last.key = "u1"
    /\ last.status = 400
    /\ users["u1"].is_active
    /\ ~users["u2"].is_active

\* C19: through PUT and DELETE /auth/users/{id} an acting admin never sets the
\* own account's is_active to false: the account is active after every such
\* request.
C19_NoSelfDeactivation ==
    [][(\/ Handled("update_user")
        \/ Handled("delete_user")) /\ ByAdmin
        => users'[last'.user].is_active]_vars

\* C20: PUT /auth/me by a non-admin user changes at most that user's own email
\* and full_name: an answer of 403 comes with no change at all, and no accepted
\* request changes the user's role or is_active or any other user's row.
C20_UpdateMeChangesProfileOnly ==
    [][(Handled("update_me") /\ last'.user \in UserIds /\ ~ByAdmin)
        => /\ \A v \in UserIds \ {last'.user} : users'[v] = users[v]
           /\ users'[last'.user] =
                 [users[last'.user] EXCEPT !.email = users'[last'.user].email,
                                           !.full_name = users'[last'.user].full_name]
           /\ last'.status = 403 => users' = users]_vars

\* C16 (as claimed): authenticate with the correct password for a user with
\* is_active = false fails with Forbidden (403), adds no session row, returns
\* no token and leaves the user's failed_login_attempts, locked_until and
\* last_login as they were.
C16_InactiveIsForbidden ==
    [][\A u \in UserIds : \A k \in KeyOf(u) :
        (~users[u].is_active /\ AuthenticateUser(k, "right"))
        => /\ last'.result = "Forbidden" /\ last'.status = 403
           /\ last'.tok = NoToken /\ last'.out = NoToken
           /\ sessions' = sessions
           /\ users' = users]_vars

\* C16 (amended): such a call never succeeds: it adds no session row, returns
\* no token and leaves the user row as it was; it fails with RateLimited (429)
\* while the store is reachable and the key's bucket holds 5 or more attempts
\* of the last 15 minutes, else with AccountLocked (403) while the user's lock
\* is in the future, else with Forbidden (403).
C16_InactiveNeverLogsIn ==
    [][\A u \in UserIds : \A k \in KeyOf(u) :
        (~users[u].is_active /\ AuthenticateUser(k, "right"))
        => /\ last'.tok = NoToken /\ last'.out = NoToken
           /\ sessions' = sessions
           /\ issued' = issued
           /\ users' = users
           /\ IF limiter = "up" /\ Cardinality(InWindow(k)) >= 5
              THEN last'.result = "RateLimited" /\ last'.status = 429
              ELSE IF LockedNow(u)
              THEN last'.result = "AccountLocked" /\ last'.status = 403
              ELSE /\ last'.result = "Forbidden" /\ last'.status = 403
                   /\ last'.detail = <<"User account is disabled">>]_vars

C16_Witness ==
    /\ last.op = "authenticate" /\ last.key = "bob" /\ last.user = "u2"
    /\ last.result = "Forbidden" /\ last.status = 403 /\ last.pwok
    /\ ~users["u2"].is_active
    /\ users["u2"].failed_login_attempts > 0
    /\ users["u2"].last_login # NULL
    /\ \A i \in 1..Len(sessions) : sessions[i].expires_at # now + Hours(8)

\* C25: when authenticate fails with RateLimited the user rows are untouched
\* (failed_login_attempts, locked_until and last_login as before), no session
\* row is created and no attempt is added to the key's bucket.
C25_RateLimitedTouchesNothing ==
    [][\A k \in Names :
        (Handled("authenticate") /\ last'.key = k /\ last'.result = "RateLimited")
        => /\ users' = users
           /\ sessions' = sessions
           /\ issued' = issued
           /\ buckets'[k].entries \subseteq buckets[k].entries
           /\ \A j \in Names \ {k} : buckets'[j] = buckets[j]]_vars

C25_Witness ==
    /\ last.op = "authenticate" /\ last.key = "alice"
    /\ last.result = "RateLimited" /\ last.at = now
    /\ now \notin buckets["alice"].entries
    /\ Cardinality(buckets["alice"].entries) = 5
    /\ users["u1"].failed_login_attempts = 5
    /\ LockedNow("u1")

\* C26: when authenticate fails with AccountLocked it records no new
\* rate-limiter attempt and leaves the user's failed_login_attempts and
\* locked_until as they were; no attempt made while the lock is in the future
\* extends the lock or adds to the bucket.
C26_LockedTouchesNothing ==
    [][\A u \in UserIds : \A k \in KeyOf(u) :
        (Handled("authenticate") /\ last'.key = k)
        => /\ last'.result = "AccountLocked"
                => /\ users' = users
                   /\ buckets'[k].entries \subseteq buckets[k].entries
                   /\ sessions' = sessions
           /\ LockedNow(u)
                => /\ users'[u].locked_until = users[u].locked_until
                   /\ users'[u].failed_login_attempts = users[u].failed_login_attempts
                   /\ buckets'[k].entries \subseteq buckets[k].entries]_vars

C26_Witness ==
    /\ last.op = "authenticate" /\ last.key = "alice"
    /\ last.result = "AccountLocked" /\ ~last.pwok /\ last.at = now
    /\ LockedNow("u1")
    /\ limiter = "up"
    /\ buckets["alice"].entries # {}
    /\ now \notin buckets["alice"].entries

\* C27: a successful refresh changes only the matched session row's access
\* token, refresh token and two expiries: the number of rows is the same, the
\* matched row keeps its place, its owner and its revoked flag, and every
\* other row is unchanged.
C27_RefreshChangesOneRow ==
    [][(Handled("refresh") /\ last'.result = "ok")
        => /\ Len(sessions') = Len(sessions)
           /\ \E i \in 1..Len(sessions) :
                /\ sessions[i].refresh_token = last'.tok
                /\ ~sessions[i].is_revoked
                /\ sessions'[i].user_id = sessions[i].user_id
                /\ sessions'[i].is_revoked = sessions[i].is_revoked
                /\ sessions'[i].token = AccessTokenFor(sessions[i].user_id)
                /\ sessions'[i].refresh_token = last'.out
                /\ \A j \in 1..Len(sessions) \ {i} : sessions'[j] = sessions[j]
           /\ users' = users /\ buckets' = buckets]_vars

C27_Witness ==
    /\ last.op = "refresh" /\ last.result = "ok" /\ ~last.replay
    /\ Len(sessions) = 2
    /\ \E i, j \in 1..Len(sessions) :
        /\ i # j
        /\ sessions[i].refresh_token = last.out
        /\ sessions[i].refresh_token # last.tok
        /\ sessions[i].expires_at = last.at + Hours(JWT_EXPIRATION_HOURS)
        /\ sessions[j].user_id # sessions[i].user_id
        /\ sessions[j].is_revoked
        /\ sessions[j].expires_at < sessions[i].expires_at

\* C29: with the store reachable, get_remaining_time(key, 15) is the number of
\* seconds until the oldest entry of the key that is still inside the window
\* leaves it, and it is 0 only if no entry of the key is inside the window,
\* also while the bucket holds entries older than the window that no check
\* has pruned yet.
C29_RemainingTimeOfOldestInside ==
    \A k \in Names :
        limiter = "up"
        => LET inside == InWindow(k)
               first == CHOOSE s \in inside : \A t \in inside : s <= t
               remaining == get_remaining_time(buckets, k, WINDOW_MINUTES)
           IN  IF inside = {} THEN remaining = 0
               ELSE /\ remaining = (first + Minutes(WINDOW_MINUTES) - now) \div TicksPerSec
                    /\ remaining > 0

\* C21: change_password replaces the credential exactly when the submitted
\* current password verifies against the stored hash: with a wrong current
\* password it answers InvalidCredentials (400) and password_hash and
\* password_changed_at stay as they were; with the right one the hash becomes
\* that of the new password and password_changed_at the time of the call.
\* Afterwards authenticate accepts the new password and rejects every other
\* one, the old one included.
C21_PasswordReplacedIffVerified ==
    [][/\ \A t \in AccessTokens, c \in Passwords, p \in NewPasswords :
            \A u \in current_users(t) \ {""} :
                (last'.op = "change_password" /\ last'.tok = t /\ ChangePassword(t, c, p))
                => IF verify_password(c, users[u].password_hash)
                   THEN /\ last'.result = "ok" /\ last'.status = 200
                        /\ users'[u].password_hash = get_password_hash(p)
                        /\ users'[u].password_changed_at = now
                        /\ \A v \in UserIds \ {u} : users'[v] = users[v]
                   ELSE /\ last'.result = "InvalidCredentials" /\ last'.status = 400
                        /\ users' = users
       /\ \A k \in Names, p \in NewPasswords : \A u \in UserIds : \A q \in NewPasswords :
            (/\ last'.op = "authenticate" /\ last'.key = k
             /\ k \in KeyOf(u)
             /\ users[u].password_changed_at # NULL
             /\ users[u].password_hash = get_password_hash(q)
             /\ AuthenticateUser(k, p))
            => /\ p # q => last'.result # "ok"
               /\ (p = q /\ last'.result \notin {"RateLimited", "AccountLocked"})
                     => last'.result = "ok"]_vars

C21_Witness ==
    /\ last.op = "authenticate" /\ last.key = "alice" /\ last.result = "InvalidCredentials"
    /\ users["u1"].password_hash = get_password_hash("renewed")
    /\ users["u1"].password_changed_at # NULL
    /\ users["u1"].password_changed_at < last.at
    /\ users["u1"].last_login # NULL
    /\ users["u1"].last_login > users["u1"].password_changed_at
    /\ users["u1"].failed_login_attempts = 1

\* C28: a successful change_password leaves every session row as it was, and
\* an access token that verify_session accepted before the change is accepted
\* after it.
C28_PasswordChangeKeepsSessions ==
    [][/\ (Handled("change_password") /\ last'.result = "ok")
            => /\ sessions' = sessions
               /\ \A t \in AccessTokens : current_users(t)' = current_users(t)
       /\ \A t \in AccessTokens : \A i \in VerifyMatches(t) :
            (/\ VerifySession(t)
             /\ users[sessions[i].user_id].password_changed_at # NULL
             /\ is_valid(sessions[i])
             /\ verify_token(t) # NoToken)
            => last'.result = "user" /\ last'.user = sessions[i].user_id]_vars

C28_Witness ==
    /\ last.op = "verify" /\ last.result = "user" /\ last.user = "u1"
    /\ users["u1"].password_hash = get_password_hash("renewed")
    /\ users["u1"].password_changed_at # NULL
    /\ last.tok.iat * TicksPerSec < users["u1"].password_changed_at
    /\ last.at > users["u1"].password_changed_at
    /\ \A i \in 1..Len(sessions) : ~sessions[i].is_revoked

\* what verify_session asks of a token for it to return user u: a signature
\* that verifies and an exp not past, a session row holding the token that is
\* not revoked and not expired, and an active user row with the token's sub
Resolves(t, u) ==
    /\ t.sig /\ t.exp >= NowSec
    /\ t.sub = u /\ u \in DOMAIN users /\ users[u].is_active
    /\ \E i \in 1..Len(sessions) :
        /\ sessions[i].token = t
        /\ ~sessions[i].is_revoked
        /\ now < sessions[i].expires_at

AdminOps == {"create_user", "list_users", "get_user", "update_user", "delete_user"}

\* C23: an admin-only operation (create, list, fetch, update, deactivate a
\* user) executes only for a bearer token that verify_session resolves to an
\* active user whose role, in the user row at that moment, is admin; in every
\* other case the answer is 401 or 403 and no user row changes.
C23_AdminOnly ==
    [][\A op \in AdminOps :
        Handled(op)
        => IF \E u \in DOMAIN users : Resolves(last'.tok, u) /\ users[u].role = "admin"
           THEN Resolves(last'.tok, last'.user) /\ last'.status \notin {401, 403}
           ELSE last'.status \in {401, 403} /\ users' = users]_vars

\* create_user by a promoted user whose token still says examiner, after the
\* admin who promoted them was demoted
C23_Witness ==
    /\ last.op = "create_user" /\ last.result = "ok" /\ last.user = "u2"
    /\ last.tok.role = "examiner"
    /\ users["u2"].role = "admin"
    /\ users["u1"].role = "viewer"
    /\ "u3" \in DOMAIN users /\ users["u3"].username = "carol"

\* C24: GET /auth/me returns user data only for a token that verify_session
\* resolves to a user, and then that user's; a token that does not resolve is
\* answered 401, a request without a token 401 or 403; no row changes.
C24_ProtectedNeedsSession ==
    [][Handled("get_me")
        => /\ last'.status = 200
                => /\ Resolves(last'.tok, last'.user)
                   /\ last'.key = users[last'.user].username
           /\ (\E u \in DOMAIN users : Resolves(last'.tok, u)) => last'.status = 200
           /\ (last'.tok # NoToken /\ ~\E u \in DOMAIN users : Resolves(last'.tok, u))
                => last'.status = 401
           /\ last'.tok = NoToken => last'.status \in {401, 403}
           /\ users' = users /\ sessions' = sessions]_vars

\* a deactivated user's token, still signed and unexpired with its session
\* row in place, is answered 401
C24_Witness ==
    /\ last.op = "get_me" /\ last.status = 401
    /\ last.tok.sub = "u2" /\ verify_token(last.tok) # NoToken
    /\ ~users["u2"].is_active
    /\ \E i \in 1..Len(sessions) :
        sessions[i].token = last.tok /\ is_valid(sessions[i])

\* the user names the rows may hold, all of them lowercase
LowercaseNames == {"alice", "bob", "carol", "dave"}

\* C22: after any sequence or interleaving of create_user and update_user
\* calls no two user rows share a lowercase username or an email; a
\* create_user whose username or email a row already holds fails with
\* Conflict and inserts nothing, and a successful one adds exactly its row.
C22_UsernamesAndEmailsUnique ==
    [][/\ \A u, v \in DOMAIN users' :
            u # v => /\ users'[u].username # users'[v].username
                     /\ users'[u].email # users'[v].email
       /\ \A u \in DOMAIN users' : users'[u].username \in LowercaseNames
       /\ (Handled("create_user") /\ last'.result # "ok")
            => last'.result = "Conflict" /\ users' = users
       /\ \A w \in Workers :
            LET taken(d) == \E v \in DOMAIN users :
                               \/ users[v].username = d.username
                               \/ users[v].email = d.email
            IN  /\ \A d \in CreateInputs :
                     (CreateBegin(w, d) /\ taken(d))
                     => last'.result = "Conflict" /\ users' = users
                /\ CreateCommit(w)
                     => IF taken(req[w].data[1])
                        THEN last'.result = "Conflict" /\ users' = users
                        ELSE /\ last'.result = "ok"
                             /\ Cardinality(DOMAIN users') = Cardinality(DOMAIN users) + 1
                             /\ \A v \in DOMAIN users : users'[v] = users[v]]_vars

\* both workers passed the queries for the same new name; one commit inserted
\* the row and the other was refused
C22_Witness ==
    /\ req["w1"].pc = "done" /\ req["w2"].pc = "done"
    /\ req["w1"].result # req["w2"].result
    /\ req["w1"].data[1].username = "carol" /\ req["w2"].data[1].username = "carol"
    /\ last.op = "create_user" /\ last.result = "Conflict"
    /\ last.detail = <<"Error creating user">>
    /\ Cardinality({u \in DOMAIN users : users[u].username = "carol"}) = 1

\* C30: a wrong-password authenticate call writes the counter it read plus
\* one, whatever was committed since it read, so two concurrent calls that
\* both read k both write k + 1 (both read 4, both write 5) and the stored
\* counter is then smaller than the number of wrong attempts made.
C30_LostCounterUpdate ==
    [][\A w \in Workers :
        WrongPasswordCommit(w)
        => LET loaded == req[w].data[1]
               u == loaded.user_id
           IN  /\ users'[u].failed_login_attempts = loaded.user.failed_login_attempts + 1
               /\ users[u].failed_login_attempts > loaded.user.failed_login_attempts
                    => users'[u].failed_login_attempts < wrongRun'[u]]_vars

C30_Witness ==
    /\ req["w1"].pc = "done" /\ req["w2"].pc = "done"
    /\ req["w1"].data # <<>> /\ req["w2"].data # <<>>
    /\ req["w1"].data[1].user.failed_login_attempts = 4
    /\ req["w2"].data[1].user.failed_login_attempts = 4
    /\ users["u1"].failed_login_attempts = 5
    /\ wrongRun["u1"] = 6
    /\ LockedNow("u1")

\* a lock that was set and whose time has come
LockPassed(u) == users[u].locked_until # NULL /\ users[u].locked_until <= now

\* C31: a lock is temporary. For an active user whose locked_until has passed
\* and whose key holds fewer than N in-window entries in the limiter, an
\* authenticate call with the correct password succeeds, creates one session
\* and clears the lock and the counter.
C31_LockIsTemporary ==
    [][\A u \in UserIds : \A k \in KeyOf(u) :
        ( /\ last'.op = "authenticate" /\ last'.key = k
          /\ LockPassed(u)
          /\ users[u].is_active
          /\ Cardinality(InWindow(k)) < LOGIN_RATE_LIMIT_PER_15MIN
          /\ AuthenticateUser(k, "right") )
        => /\ last'.result = "ok" /\ last'.status = 200
           /\ Len(sessions') = Len(sessions) + 1
           /\ sessions'[Len(sessions')].user_id = u
           /\ ~sessions'[Len(sessions')].is_revoked
           /\ users'[u].locked_until = NULL
           /\ users'[u].failed_login_attempts = 0]_vars

C31_Witness ==
    /\ last.op = "authenticate" /\ last.key = "alice" /\ last.result = "ok"
    /\ last.pre >= LOCK_THRESHOLD
    /\ last.at = now /\ now >= Minutes(LOCK_MINUTES)
    /\ users["u1"].locked_until = NULL
    /\ users["u1"].failed_login_attempts = 0
    /\ Len(sessions) = 1 /\ sessions[1].user_id = "u1"

\* C32: the expiry of a lock does not reset failed_login_attempts. While a
\* lock whose time has come is still on the row (no successful login since),
\* the counter is at least 5 and only authenticate changes it, and a single
\* wrong-password attempt that reaches password verification adds one to it
\* and sets a new lock of 30 minutes from that moment.
C32_ExpiredLockKeepsCounter ==
    [][\A u \in UserIds :
        LockPassed(u)
        => /\ users[u].failed_login_attempts >= LOCK_THRESHOLD
           /\ ~Handled("authenticate")
                => users'[u].failed_login_attempts = users[u].failed_login_attempts
           /\ ( /\ Handled("authenticate") /\ last'.user = u
                /\ last'.result = "InvalidCredentials" )
                => /\ users'[u].failed_login_attempts
                          = users[u].failed_login_attempts + 1
                   /\ users'[u].locked_until = now + Minutes(LOCK_MINUTES)]_vars

C32_Witness ==
    /\ last.op = "authenticate" /\ last.key = "alice"
    /\ last.result = "InvalidCredentials" /\ last.user = "u1"
    /\ last.pre = LOCK_THRESHOLD
    /\ last.at = now /\ now >= Minutes(LOCK_MINUTES)
    /\ users["u1"].failed_login_attempts = LOCK_THRESHOLD + 1
    /\ users["u1"].locked_until = now + Minutes(LOCK_MINUTES)

\* session rows that are revoked and hold the access token, the refresh token
RevokedWithToken(t) ==
    {i \in 1..Len(sessions) : sessions[i].is_revoked /\ sessions[i].token = t}

RevokedWithRefreshToken(t) ==
    {i \in 1..Len(sessions) :
        sessions[i].is_revoked /\ sessions[i].refresh_token = t}

\* C33: revocation is permanent: no operation sets a session's revoked flag
\* back to false, and once a session is revoked verify_session on its access
\* token returns none and refresh on its refresh token fails, whatever
\* operations came in between.
C33_RevocationIsPermanent ==
    [][/\ \A i \in 1..Len(sessions) :
            sessions[i].is_revoked
            => /\ i <= Len(sessions')
               /\ sessions'[i].is_revoked
               /\ sessions'[i].token = sessions[i].token
               /\ sessions'[i].refresh_token = sessions[i].refresh_token
       /\ (Handled("verify") /\ RevokedWithToken(last'.tok) # {})
            => last'.result = "none"
       /\ (Handled("refresh") /\ RevokedWithRefreshToken(last'.tok) # {})
            => last'.result # "ok"]_vars

\* the part of C33 about the flag alone
C33_NeverUnrevoked ==
    [][\A i \in 1..Len(sessions) :
            sessions[i].is_revoked
            => i <= Len(sessions') /\ sessions'[i].is_revoked]_vars

\* C34: deactivating a user revokes none of their session rows. While
\* is_active is false verify_session returns none for their tokens, and once
\* the user is active again an access token issued before the deactivation,
\* unexpired and with its session row valid, is accepted again.
C34_DeactivationKeepsSessions ==
    [][/\ (Handled("delete_user") \/ Handled("update_user"))
            => sessions' = sessions
       /\ \A u \in UserIds :
            (Handled("verify") /\ last'.tok.sub = u)
            => /\ ~users[u].is_active => last'.result = "none"
               /\ ( /\ users[u].is_active
                    /\ verify_token(last'.tok) # NoToken
                    /\ \E i \in 1..Len(sessions) :
                          sessions[i].token = last'.tok /\ ~sessions[i].is_revoked
                    /\ \A i \in 1..Len(sessions) :
                          sessions[i].token = last'.tok => now < sessions[i].expires_at )
                    => last'.result = "user" /\ last'.user = u]_vars

\* bob's one login precedes the admin's one login, so his token is older than
\* any deactivation; he was deactivated, activated again, and is verified
C34_Witness ==
    /\ last.op = "verify" /\ last.result = "user" /\ last.user = "u2"
    /\ users["u2"].full_name = Reactivation.full_name
    /\ users["u2"].is_active
    /\ users["u2"].last_login # NULL /\ users["u1"].last_login # NULL
    /\ users["u2"].last_login < users["u1"].last_login
    /\ \E i \in 1..Len(sessions) :
          /\ sessions[i].user_id = "u2" /\ sessions[i].token = last.tok
          /\ ~sessions[i].is_revoked

\* while bob is inactive his token is refused
C34_RefusedWhileInactive ==
    /\ last.op = "verify" /\ last.result = "none" /\ last.tok.sub = "u2"
    /\ ~users["u2"].is_active
    /\ \E i \in 1..Len(sessions) :
          sessions[i].token = last.tok /\ is_valid(sessions[i])

\* C35: no privilege escalation. A user's role changes, and a user row with
\* a role comes to exist, only in a step that answers a request whose bearer
\* token resolved to an active user with role admin in the user row at that
\* moment; requests of non-admin users change no role.
C35_RolesChangeByAdminsOnly ==
    [][\A u \in DOMAIN users' :
        (u \notin DOMAIN users \/ users'[u].role # users[u].role)
        => /\ last'.op \in {"update_me", "update_user", "create_user"}
           /\ last'.at = now /\ last'.status \in {200, 201}
           /\ Resolves(last'.tok, last'.user)
           /\ users[last'.user].role = "admin"]_vars

\* the admin has promoted bob, whose own requests for a role were refused
C35_Witness ==
    /\ last.op = "update_user" /\ last.status = 200 /\ last.key = "u2"
    /\ last.user = "u1" /\ users["u1"].role = "admin"
    /\ RoleOf["u2"] = "examiner" /\ users["u2"].role = "admin"
    /\ \E i \in 1..Len(sessions) : sessions[i].user_id = "u2"

\* C36: the actor identity of an audit record (user id, username, role) is
\* non-null only when the bearer token of the request belongs to a session
\* that is valid at that moment: not revoked, unexpired, of an active user. A
\* request bearing a logged-out token whose JWT has not expired is recorded
\* as anonymous.
C36_ActorOnlyOfValidSession ==
    [][(Dispatched /\ Len(audit_log') = Len(audit_log) + 1)
        => LET e == audit_log'[Len(audit_log')]
               token == http'.request[1].authorization.credentials
           IN  (e.user_id # "" \/ e.username # "" \/ e.user_role # "")
               => \E u \in DOMAIN users : Resolves(token, u)]_vars

\* C37: under any interleaving of concurrent authenticate calls for one key,
\* at most N = 5 attempts of a 15-minute window get past the rate-limit check
\* and reach password verification. Every entry of the key's bucket was
\* recorded by an attempt that had passed the check, so the bucket never
\* holds more than N entries younger than 15 minutes.
C37_AtMostNPassConcurrently ==
    \A k \in Names :
        limiter = "up" => Cardinality(InWindow(k)) <= LOGIN_RATE_LIMIT_PER_15MIN

\* C38: whenever verify_session(token) returns a user, a non-revoked session
\* row holds the token, every such row belongs to that user, and the user is
\* the one the token was issued to, after any sequence of logins, refreshes,
\* logouts and user updates.
C38_VerifiedUserOwnsSession ==
    [][(Handled("verify") /\ last'.result = "user")
        => /\ last'.tok \in issued
           /\ last'.tok.sub = last'.user
           /\ \E i \in 1..Len(sessions) :
                 sessions[i].token = last'.tok /\ ~sessions[i].is_revoked
           /\ \A i \in 1..Len(sessions) :
                 (sessions[i].token = last'.tok /\ ~sessions[i].is_revoked)
                 => sessions[i].user_id = last'.user]_vars

\* bob is verified by a refreshed token after an update of his row, while
\* alice holds a session too
C38_Witness ==
    /\ last.op = "verify" /\ last.result = "user" /\ last.user = "u2"
    /\ users["u2"].full_name = "New Name"
    /\ \E i \in 1..Len(sessions) :
          /\ sessions[i].token = last.tok /\ sessions[i].user_id = "u2"
          /\ sessions[i].refresh_token.iat > 0
    /\ \E i \in 1..Len(sessions) : sessions[i].user_id = "u1"

\* C39: in every state reached by operations run one after another, a user's
\* locked_until is non-null only if failed_login_attempts is at least 5, and
\* failed_login_attempts is never negative; the two fields change only in
\* a step of authenticate for that user.
C39_LockOnlyWithFiveFailures ==
    [][\A u \in UserIds :
        /\ users[u].locked_until # NULL
              => users[u].failed_login_attempts >= LOCK_THRESHOLD
        /\ users[u].failed_login_attempts >= 0
        /\ ( \/ users'[u].locked_until # users[u].locked_until
             \/ users'[u].failed_login_attempts # users[u].failed_login_attempts )
              => /\ last'.op = "authenticate" /\ last'.user = u
                 /\ last'.at = now
                 /\ last'.result \in {"InvalidCredentials", "ok"}]_vars

\* bob, locked by five failures, is deactivated by the admin: the update
\* leaves his counter and his lock
C39_Witness ==
    /\ last.op = "delete_user" /\ last.status = 200 /\ last.key = "u2"
    /\ ~users["u2"].is_active
    /\ users["u2"].locked_until # NULL
    /\ users["u2"].failed_login_attempts = LOCK_THRESHOLD

\* C40: all letter-case variants of a username that resolve to one user share
\* one rate-limit bucket: a failed attempt submitted as one variant is counted
\* in the bucket that check reads for every other variant, and a successful
\* login empties the bucket of all of them.
C40_CaseVariantsShareBucket ==
    [][\A u \in UserIds : \A k \in KeyOf(u) : \A j \in KeyOf(u) :
        (limiter = "up" /\ Handled("authenticate") /\ last'.key = k)
        => /\ last'.result = "InvalidCredentials" => now \in buckets'[j].entries
           /\ last'.result = "ok" => buckets'[j].entries = {}]_vars

====
